---- MODULE Spec2Model ----
(***************************************************************************)
(* A model of kanban-mcp: the board store (boards, columns, cards), the    *)
(* event queue, the listener registry and the queue processor of           *)
(* src/kanban_mcp/db.py, driven through the tool handlers of               *)
(* src/kanban_mcp/tools.py.                                                *)
(*                                                                         *)
(* Tables are sequences of rows in rowid (insertion) order.  An optional   *)
(* value (a Python None or a SQL NULL against a value) is None == <<>> or  *)
(* Some(x) == <<x>>.  A text value is a sequence of characters.            *)
(***************************************************************************)
EXTENDS Integers, Sequences, FiniteSets, TLC

VARIABLES
    clock,      \* the last sample of time.time(), in microseconds
    boards,     \* table boards
    columns,    \* table columns
    cards,      \* table cards
    listeners,  \* table listeners
    events,     \* table events
    runs,       \* the process_queue invocations, by process
    delivered,  \* history: the deliveries that succeeded, and the run of each
    last        \* the response of the last call

vars == <<clock, boards, columns, cards, listeners, events, runs, delivered, last>>

-----------------------------------------------------------------------------
(* Bounds of the model *)

MaxWraps == 1
MaxMicros == 1
MaxEmitted == 1
MaxCards == 1
MaxBusRows == 3
MaxRetry == 2
MaxRaceEvents == 1
MaxRaceListeners == 1

-----------------------------------------------------------------------------
(* Values *)

None == <<>>
Some(x) == <<x>>

\* Python truthiness of an optional text: None and '' are falsy.
Truthy(o) == o # None /\ o[1] # <<>>

\* str.strip(): drop leading and trailing whitespace.
RECURSIVE lstrip(_)
lstrip(s) == IF s # <<>> /\ Head(s) = " " THEN lstrip(Tail(s)) ELSE s
RECURSIVE rstrip(_)
rstrip(s) ==
    IF s # <<>> /\ s[Len(s)] = " " THEN rstrip(SubSeq(s, 1, Len(s) - 1)) ELSE s
strip(s) == rstrip(lstrip(s))

\* (x or '') for an optional text
OrEmpty(o) == IF Truthy(o) THEN o[1] ELSE <<>>

\* The rows of a table that satisfy a condition, in rowid order.
Rows(table, P(_)) == SelectSeq(table, P)
Exists(table, P(_)) == \E i \in DOMAIN table : P(table[i])
Update(table, P(_), F(_)) ==
    [i \in DOMAIN table |-> IF P(table[i]) THEN F(table[i]) ELSE table[i]]

-----------------------------------------------------------------------------
(* The clock and identifiers *)

\* A sample of int(time.time()*1000000) is kept split as
\*     wraps * 2^32 + micros,   with micros < 2^32,
\* because 2^32 is more than the model checker's integers hold.
\* 2^32 microseconds = 4294 seconds + 967296 microseconds.
MicrosPerSecond == 1000000
WrapSeconds == 4294
WrapMicros == 967296

\* hex(int(time.time()*1000000))[2:][-8:]: the low 32 bits of the sample,
\* that is the sample less its multiple of 2^32
uid(t) == t.micros

\* time.strftime('%Y-%m-%dT%H:%M:%SZ', time.gmtime()): the sample in whole
\* seconds
strftime(t) ==
    t.wraps * WrapSeconds + (t.wraps * WrapMicros + t.micros) \div MicrosPerSecond

\* The clock is sampled again at each call and never runs backwards: the
\* next sample is the same microsecond, the next microsecond, or 2^32
\* microseconds (71 minutes) later.
SamplesUpTo(t, maxMicros, maxWraps) ==
    {t}
    \cup {[t EXCEPT !.micros = @ + 1] : x \in {1} \cap 1..(maxMicros - t.micros)}
    \cup {[t EXCEPT !.wraps = @ + 1] : x \in {1} \cap 1..(maxWraps - t.wraps)}
Samples(t) == SamplesUpTo(t, MaxMicros, MaxWraps)
SamplesIf(sampled, t) == IF sampled THEN Samples(t) ELSE {t}

-----------------------------------------------------------------------------
(* Board store *)

UserKeys == {"u1"}
BoardKeys == {"default"}
ColumnNames == {"backlog", "blocked"}
Titles == {<<"t">>}
Externals == {<<"", "">>, <<"story", "s1">>}
\* (blocked_by, blocked_reason) as passed to move_card
BlockedArgs == {<<None, None>>, <<None, Some(<<"r">>)>>, <<Some(<<>>), Some(<<"r">>)>>,
                <<Some(<<"a">>), Some(<<>>)>>, <<Some(<<"a">>), Some(<<" ">>)>>,
                <<Some(<<"a">>), Some(<<"r">>)>>}
\* a card id that uid() never returns
NoSuchId == MaxMicros + 1

HasBoard(bs, user_key, board_key) ==
    Exists(bs, LAMBDA b : b.user_key = user_key /\ b.board_key = board_key)

insert_board_any_pair(bs, row) ==
    IF Exists(bs, LAMBDA b : b.id = row.id)
    THEN [boards |-> bs, err |-> "IntegrityError"]
    ELSE [boards |-> Append(bs, row), err |-> "none"]

\* INSERT INTO boards: id is the primary key and (user_key, board_key) is
\* unique; a row that breaks either raises and the table is as before.
insert_board(bs, row) ==
    IF Exists(bs, LAMBDA b : b.id = row.id
                          \/ (b.user_key = row.user_key /\ b.board_key = row.board_key))
    THEN [boards |-> bs, err |-> "IntegrityError"]
    ELSE [boards |-> Append(bs, row), err |-> "none"]

\* ensure_board: the row of (user_key, board_key), inserted when missing.
ensure_board(bs, t, user_key, board_key) ==
    LET found == Rows(bs, LAMBDA b : b.user_key = user_key /\ b.board_key = board_key)
        bid == uid(t)
        ins == insert_board(bs, [id |-> bid, user_key |-> user_key,
                                 board_key |-> board_key])
    IN  IF found # <<>>
        THEN [boards |-> bs, err |-> "none", id |-> found[1].id]
        ELSE [boards |-> ins.boards, err |-> ins.err, id |-> bid]

column_by_name(cols, board_id, name) ==
    LET found == Rows(cols, LAMBDA c : c.board_id = board_id /\ c.name = name)
    IN  IF found # <<>>
        THEN Some([id |-> found[1].id, name |-> found[1].name,
                   wip_limit |-> found[1].wip_limit, position |-> found[1].position])
        ELSE None

\* COALESCE(MAX(position), -1)+1 over the columns of the board
NextPosition(cols, board_id) ==
    LET ps == {cols[i].position : i \in {j \in DOMAIN cols : cols[j].board_id = board_id}}
    IN  IF ps = {} THEN 0 ELSE (CHOOSE p \in ps : \A q \in ps : q <= p) + 1

\* INSERT OR IGNORE INTO columns: a row whose id or whose (board_id, name) is
\* already in the table is dropped silently.
InsertColumnOrIgnore(cols, row) ==
    IF Exists(cols, LAMBDA c : c.id = row.id
                          \/ (c.board_id = row.board_id /\ c.name = row.name))
    THEN cols ELSE Append(cols, row)

\* add_column: the position is read, the id is drawn, the row is inserted or
\* ignored; the returned column is built from the arguments either way.
add_column(cols, t, board_id, name, wip_limit) ==
    LET pos == NextPosition(cols, board_id)
        cid == uid(t)
        row == [id |-> cid, board_id |-> board_id, name |-> name,
                wip_limit |-> wip_limit, position |-> pos]
    IN  [columns |-> InsertColumnOrIgnore(cols, row),
         col |-> [id |-> cid, name |-> name, wip_limit |-> wip_limit, position |-> pos]]

ensure_column(cols, t, board_id, name) ==
    LET col == column_by_name(cols, board_id, name)
    IN  IF col # None THEN [columns |-> cols, col |-> col[1]]
        ELSE add_column(cols, t, board_id, name, None)

\* add_card: the column is ensured (and committed) first, with its own
\* uid() sample tc; cards.id is the primary key and (board_id, external_type,
\* external_id) is unique; the blocked fields are not inserted, so are NULL.
\* the INSERT INTO cards of add_card, for the column that was ensured
insert_card(cds, t, board_id, title, col, external) ==
    LET cid == uid(t)
        clash == Exists(cds, LAMBDA c : c.id = cid
                                 \/ (c.board_id = board_id
                                     /\ c.external_type = external[1]
                                     /\ c.external_id = external[2]))
        row == [id |-> cid, board_id |-> board_id, title |-> title,
                description |-> <<>>, assignee |-> <<>>, priority |-> <<>>,
                column_id |-> col.id,
                external_type |-> external[1], external_id |-> external[2],
                blocked_by |-> None, blocked_reason |-> None, blocked_since |-> None]
    IN  IF clash
        THEN [cards |-> cds, err |-> "IntegrityError", ret |-> None]
        ELSE [cards |-> Append(cds, row), err |-> "none",
              ret |-> Some([id |-> cid, title |-> title, column |-> col.name])]

add_card(cols, cds, tc, t, board_id, title, column, external) ==
    LET ec == ensure_column(cols, tc, board_id, column)
        ins == insert_card(cds, t, board_id, title, ec.col, external)
    IN  [columns |-> ec.columns, cards |-> ins.cards, err |-> ins.err, ret |-> ins.ret]

\* _current_card_column: the name of the column the card's column_id joins to
current_card_column(cols, cds, card_id) ==
    LET found == Rows(cds, LAMBDA c : c.id = card_id
                              /\ Exists(cols, LAMBDA k : k.id = c.column_id))
    IN  IF found = <<>> THEN None
        ELSE Some(Rows(cols, LAMBDA k : k.id = found[1].column_id)[1].name)

BlockedArgsOkUnstripped(blocked_by, blocked_reason) ==
    Truthy(blocked_by) /\ Truthy(blocked_reason)

\* the test move_card makes of its blocked arguments
BlockedArgsOk(blocked_by, blocked_reason) ==
    Truthy(blocked_by) /\ strip(OrEmpty(blocked_reason)) # <<>>

\* the UPDATE of move_card for the target 'blocked'
SetBlocked(c, column_id, blocked_by, blocked_reason, now) ==
    [c EXCEPT !.column_id = column_id, !.blocked_by = blocked_by,
              !.blocked_reason = blocked_reason, !.blocked_since = Some(now)]

ClearBlockedKeepsReason(c, column_id) ==
    [c EXCEPT !.column_id = column_id, !.blocked_by = None, !.blocked_since = None]

\* the UPDATE of move_card for any other target
ClearBlocked(c, column_id) ==
    [c EXCEPT !.column_id = column_id, !.blocked_by = None,
              !.blocked_reason = None, !.blocked_since = None]

\* move_card: the target column is resolved (and created) before the
\* blocked arguments are tested.
\* the test and the UPDATE of move_card, for the column that was ensured
update_moved(cds, col, now, card_id, blocked_by, blocked_reason) ==
    IF col.name = "blocked"
    THEN IF ~BlockedArgsOk(blocked_by, blocked_reason)
         THEN [cards |-> cds, err |-> "ValueError"]
         ELSE [cards |-> Update(cds, LAMBDA c : c.id = card_id,
                                LAMBDA c : SetBlocked(c, col.id, blocked_by,
                                                      blocked_reason, now)),
               err |-> "none"]
    ELSE [cards |-> Update(cds, LAMBDA c : c.id = card_id,
                           LAMBDA c : ClearBlocked(c, col.id)),
          err |-> "none"]

move_card(cols, cds, t, board_id, card_id, target_column, blocked_by, blocked_reason) ==
    LET prev_col == current_card_column(cols, cds, card_id)
        ec == ensure_column(cols, t, board_id, target_column)
        upd == update_moved(cds, ec.col, strftime(t), card_id, blocked_by, blocked_reason)
    IN  [columns |-> ec.columns, cards |-> upd.cards, err |-> upd.err,
         ret |-> IF upd.err = "none"
                 THEN Some([id |-> card_id, from |-> prev_col, to |-> ec.col.name])
                 ELSE None]

\* update_card: only the four allowed keys are written; with none of them
\* the call returns updated 0; otherwise the UPDATE runs and the call
\* returns updated 1, whether or not a row has that id.
AllowedKeys == {"title", "description", "assignee", "priority"}
Field(c, fields, k) == IF k \in DOMAIN fields THEN fields[k] ELSE c[k]
update_card(cds, card_id, fields) ==
    LET allowed == DOMAIN fields \cap AllowedKeys
    IN  IF allowed = {} THEN [cards |-> cds, ret |-> [updated |-> 0]]
        ELSE [cards |-> Update(cds, LAMBDA c : c.id = card_id,
                    LAMBDA c : [c EXCEPT !.title = Field(c, fields, "title"),
                                         !.description = Field(c, fields, "description"),
                                         !.assignee = Field(c, fields, "assignee"),
                                         !.priority = Field(c, fields, "priority")]),
              ret |-> [updated |-> 1]]

-----------------------------------------------------------------------------
(* Event queue *)

\* json.dumps of a dict: the text lists the members, each a key and its
\* value, one after the other.  json.loads builds the dict back from the
\* members it reads.
RECURSIVE Members(_, _)
Members(v, keys) ==
    IF keys = {} THEN <<>>
    ELSE LET k == CHOOSE x \in keys : TRUE
         IN  <<<<k, v[k]>>>> \o Members(v, keys \ {k})
json_dumps(v) == Members(v, DOMAIN v)
json_loads(s) ==
    [k \in {s[i][1] : i \in DOMAIN s} |-> s[CHOOSE i \in DOMAIN s : s[i][1] = k][2]]

\* enqueue_event: events.id is the primary key
enqueue_event(evs, t, board_id, event, payload) ==
    LET eid == uid(t)
        row == [id |-> eid, board_id |-> board_id, event |-> event,
                payload_json |-> json_dumps(payload), status |-> "queued",
                retry_count |-> 0, last_error |-> None, created_at |-> strftime(t)]
    IN  IF Exists(evs, LAMBDA e : e.id = eid)
        THEN [events |-> evs, err |-> "IntegrityError", ret |-> None]
        ELSE [events |-> Append(evs, row), err |-> "none",
              ret |-> Some([id |-> eid, event |-> event])]

-----------------------------------------------------------------------------
(* Tool handlers of the board store (Tools.call) *)

\* what the caller is told: the tool called and the error raised, if any
Response(op, err, ret) == [op |-> op, err |-> err]

\* a call that raised before it changed anything
Raised(op, err) ==
    /\ last' = Response(op, err, None)
    /\ UNCHANGED <<clock, boards, columns, cards, listeners, events, runs, delivered>>

SwallowedRaises(err) == err

\* except Exception: pass -- what the caller sees of an error raised inside
\* the try
Swallowed(err) == "none"

\* try: enqueue_event(...) except Exception: pass, and the return of the
\* mutation's result.  The enqueue samples the clock and inserts the row, or
\* it raises (an id already in the table, or a storage error such as a
\* locked database) and the handler swallows the error.  t is the sample
\* before the enqueue.
TryEnqueue(t, board_id, event, payload, op, ret) ==
    \/ /\ Len(events) < MaxEmitted
       /\ \E te \in Samples(t) :
            /\ events' = enqueue_event(events, te, board_id, event, payload).events
            /\ events' # events
            /\ clock' = te
       /\ last' = Response(op, "none", ret)
    \/ /\ events' = events
       /\ clock' = t
       /\ last' = Response(op, Swallowed("Exception"), ret)

ToolAddColumn(user_key, board_key, name, wip_limit) ==
    \E t1 \in SamplesIf(~HasBoard(boards, user_key, board_key), clock) :
        LET eb == ensure_board(boards, t1, user_key, board_key) IN
        IF eb.err # "none" THEN Raised("add_column", eb.err)
        ELSE \E t2 \in Samples(t1) :
            LET ac == add_column(columns, t2, eb.id, name, wip_limit) IN
            /\ boards' = eb.boards
            /\ columns' = ac.columns
            /\ TryEnqueue(t2, eb.id, "column_created", [column |-> ac.col],
                          "add_column", Some(ac.col))
            /\ UNCHANGED <<cards, listeners, runs, delivered>>

ToolAddCard(user_key, board_key, title, column, external) ==
    \E t1 \in SamplesIf(~HasBoard(boards, user_key, board_key), clock) :
        LET eb == ensure_board(boards, t1, user_key, board_key) IN
        IF eb.err # "none" THEN Raised("add_card", eb.err)
        ELSE \E t2 \in SamplesIf(column_by_name(columns, eb.id, column) = None, t1) :
             \E t3 \in Samples(t2) :
            LET ac == add_card(columns, cards, t2, t3, eb.id, title, column, external) IN
            IF ac.err # "none"
            THEN \* the column ensured before the INSERT failed stays
                 /\ boards' = eb.boards
                 /\ columns' = ac.columns
                 /\ clock' = t3
                 /\ last' = Response("add_card", ac.err, None)
                 /\ UNCHANGED <<cards, listeners, events, runs, delivered>>
            ELSE /\ boards' = eb.boards
                 /\ columns' = ac.columns
                 /\ cards' = ac.cards
                 /\ TryEnqueue(t3, eb.id, "card_created", ac.ret[1], "add_card", ac.ret)
                 /\ UNCHANGED <<listeners, runs, delivered>>

ToolMoveCard(user_key, board_key, card_id, target_column, blocked_by, blocked_reason) ==
    \E t1 \in SamplesIf(~HasBoard(boards, user_key, board_key), clock) :
        LET eb == ensure_board(boards, t1, user_key, board_key) IN
        IF eb.err # "none" THEN Raised("move_card", eb.err)
        ELSE \E t2 \in SamplesIf(column_by_name(columns, eb.id, target_column) = None, t1) :
            LET mv == move_card(columns, cards, t2, eb.id, card_id, target_column,
                                blocked_by, blocked_reason) IN
            IF mv.err # "none"
            THEN /\ boards' = eb.boards
                 /\ columns' = mv.columns
                 /\ clock' = t2
                 /\ last' = Response("move_card", mv.err, None)
                 /\ UNCHANGED <<cards, listeners, events, runs, delivered>>
            ELSE /\ boards' = eb.boards
                 /\ columns' = mv.columns
                 /\ cards' = mv.cards
                 /\ TryEnqueue(t2, eb.id, "card_moved", mv.ret[1], "move_card", mv.ret)
                 /\ UNCHANGED <<listeners, runs, delivered>>

\* update_card runs before the board is resolved; ensure_board is inside
\* the try, so a board row it inserts stays when the enqueue then fails, and
\* an error of either is swallowed.
ToolUpdateCard(user_key, board_key, card_id, fields) ==
    LET uc == update_card(cards, card_id, fields) IN
    \E t1 \in SamplesIf(~HasBoard(boards, user_key, board_key), clock) :
        LET eb == ensure_board(boards, t1, user_key, board_key) IN
        /\ cards' = uc.cards
        /\ boards' = eb.boards
        /\ IF eb.err # "none"
           THEN /\ events' = events
                /\ clock' = t1
                /\ last' = Response("update_card", Swallowed(eb.err), Some(uc.ret))
           ELSE TryEnqueue(t1, eb.id, "card_updated",
                           [id |-> card_id, fields |-> fields],
                           "update_card", Some(uc.ret))
        /\ UNCHANGED <<columns, listeners, runs, delivered>>

-----------------------------------------------------------------------------
(* Listener registry *)

\* add_listener: listeners.id is the primary key; kind and target are stored
\* as given.
add_listener(lns, t, board_id, event, kind, target, filter) ==
    LET lid == uid(t)
        row == [id |-> lid, board_id |-> board_id, event |-> event, kind |-> kind,
                target |-> target, filter_json |-> json_dumps(filter), active |-> 1]
    IN  IF Exists(lns, LAMBDA l : l.id = lid)
        THEN [listeners |-> lns, err |-> "IntegrityError"]
        ELSE [listeners |-> Append(lns, row), err |-> "none"]

remove_listener_deletes(lns, listener_id) ==
    Rows(lns, LAMBDA l : l.id # listener_id)

\* remove_listener: UPDATE listeners SET active=0 WHERE id=?
remove_listener(lns, listener_id) ==
    Update(lns, LAMBDA l : l.id = listener_id, LAMBDA l : [l EXCEPT !.active = 0])

matching_listeners_inactive_too(lns, board_id, event) ==
    LET hit == Rows(lns, LAMBDA l : l.board_id = board_id
                                  /\ (l.event = event \/ l.event = "*"))
    IN  [i \in DOMAIN hit |->
            [id |-> hit[i].id, event |-> hit[i].event, kind |-> hit[i].kind,
             target |-> hit[i].target, filter |-> json_loads(hit[i].filter_json)]]

matching_listeners_any_board(lns, board_id, event) ==
    LET hit == Rows(lns, LAMBDA l : l.active = 1 /\ (l.event = event \/ l.event = "*"))
    IN  [i \in DOMAIN hit |->
            [id |-> hit[i].id, event |-> hit[i].event, kind |-> hit[i].kind,
             target |-> hit[i].target, filter |-> json_loads(hit[i].filter_json)]]

matching_listeners_newest_first(lns, board_id, event) ==
    LET hit == Rows(lns, LAMBDA l : l.board_id = board_id /\ l.active = 1
                                  /\ (l.event = event \/ l.event = "*"))
    IN  [i \in DOMAIN hit |->
            LET h == hit[Len(hit) + 1 - i] IN
            [id |-> h.id, event |-> h.event, kind |-> h.kind,
             target |-> h.target, filter |-> json_loads(h.filter_json)]]

\* list_listeners: every listener of the board, active or not.  The rows
\* come ordered by created_at; the model keeps them as a set.
list_listeners(lns, board_id) ==
    {[id |-> lns[k].id, event |-> lns[k].event, kind |-> lns[k].kind,
      target |-> lns[k].target, active |-> lns[k].active] :
        k \in {j \in DOMAIN lns : lns[j].board_id = board_id}}

\* _matching_listeners: the active listeners of the board on the event or on
\* '*', in the order of the table scan.  The SELECT has no ORDER BY and no
\* index serves its WHERE, so SQLite walks the table by rowid, which is the
\* order of the INSERTs (no listener is ever deleted).
matching_listeners(lns, board_id, event) ==
    LET hit == Rows(lns, LAMBDA l : l.board_id = board_id /\ l.active = 1
                                  /\ (l.event = event \/ l.event = "*"))
    IN  [i \in DOMAIN hit |->
            [id |-> hit[i].id, event |-> hit[i].event, kind |-> hit[i].kind,
             target |-> hit[i].target, filter |-> json_loads(hit[i].filter_json)]]

-----------------------------------------------------------------------------
(* Dispatcher *)

InfoLimit == 500

\* A text that a target or an exception produced: where it came from and
\* how long it is.  text[:500] keeps at most 500 characters.
Text(what, len) == [what |-> what, len |-> len]
Truncate(x) == [x EXCEPT !.len = IF @ > InfoLimit THEN InfoLimit ELSE @]

\* What the outside world does with one delivery: a command exits with a
\* code and its two outputs, an HTTP call returns or raises.
CommandOutcomes ==
    {[rc |-> 0, stdout |-> Text("stdout", 2), stderr |-> Text("stderr", 0), exc |-> None],
     [rc |-> 1, stdout |-> Text("stdout", 0), stderr |-> Text("stderr", 2), exc |-> None],
     [rc |-> 0, stdout |-> Text("stdout", 0), stderr |-> Text("stderr", 0),
      exc |-> Some(Text("exception", 2))]}
HttpOutcomes ==
    {[rc |-> 0, stdout |-> Text("body", 0), stderr |-> Text("stderr", 0), exc |-> None],
     [rc |-> 0, stdout |-> Text("body", 0), stderr |-> Text("stderr", 0),
      exc |-> Some(Text("exception", 2))]}
Outcomes(kind) ==
    IF kind = "command" THEN CommandOutcomes
    ELSE IF kind = "http" THEN HttpOutcomes
    ELSE {[rc |-> 0, stdout |-> Text("stdout", 0), stderr |-> Text("stderr", 0),
           exc |-> None]}

deliver_unknown_ok(kind, target, payload, out) ==
    IF kind \in {"command", "http"} /\ out.exc # None
    THEN <<FALSE, Truncate(out.exc[1])>>
    ELSE IF kind = "command"
    THEN IF out.rc # 0
         THEN <<FALSE, Truncate(IF out.stderr.len > 0 THEN out.stderr
                                ELSE IF out.stdout.len > 0 THEN out.stdout
                                ELSE Text("exit", out.rc))>>
         ELSE <<TRUE, Truncate(out.stdout)>>
    ELSE IF kind = "http" THEN <<TRUE, Text("ok", 2)>>
    ELSE <<TRUE, Text("unknown kind", Len(kind))>>

\* _deliver: <<ok, info>> for one listener, given what the target did.  An
\* exception raised inside the try, by either kind, is caught and returned
\* as the failure.
deliver(kind, target, payload, out) ==
    IF kind \in {"command", "http"} /\ out.exc # None
    THEN <<FALSE, Truncate(out.exc[1])>>
    ELSE IF kind = "command"
    THEN IF out.rc # 0
         THEN <<FALSE, Truncate(IF out.stderr.len > 0 THEN out.stderr
                                ELSE IF out.stdout.len > 0 THEN out.stdout
                                ELSE Text("exit", out.rc))>>
         ELSE <<TRUE, Truncate(out.stdout)>>
    ELSE IF kind = "http" THEN <<TRUE, Text("ok", 2)>>
    ELSE <<FALSE, Text("unknown kind", Len(kind))>>

\* whether _deliver reaches the target at all
Attempts(kind) == kind \in {"command", "http"}

-----------------------------------------------------------------------------
(* Queue processor: process_queue as the steps of one invocation *)

Procs == {1, 2}

IdleRun ==
    [pc |-> "idle", board_id |-> 0, execute |-> FALSE, batch |-> <<>>, i |-> 0,
     lns |-> <<>>, j |-> 0, status |-> "done", last_error |-> None, tried |-> <<>>,
     processed |-> 0, failed |-> 0]

\* SELECT id,event,payload_json FROM events WHERE board_id=? AND
\* status='queued' ORDER BY created_at ASC LIMIT ?
Queued(evs, board_id) ==
    {k \in DOMAIN evs : evs[k].board_id = board_id /\ evs[k].status = "queued"}
Limit(n, count) == IF n < 0 \/ n > count THEN count ELSE n

SnapshotsTiesAnyOrder(evs, board_id, max_events) ==
    LET q == Queued(evs, board_id)
        n == Limit(max_events, Cardinality(q))
    IN  {[x \in 1..n |-> [id |-> evs[ks[x]].id, event |-> evs[ks[x]].event,
                          payload_json |-> evs[ks[x]].payload_json]] :
         ks \in {f \in [1..n -> q] :
                   /\ \A x, y \in 1..n : x < y =>
                        /\ f[x] # f[y]
                        /\ evs[f[x]].created_at <= evs[f[y]].created_at
                   /\ \A k \in q \ {f[x] : x \in 1..n} : \A x \in 1..n :
                        evs[f[x]].created_at <= evs[k].created_at}}

\* the row at k sorts before the row at m: by created_at, which has second
\* precision, and among rows of one second by rowid, because SQLite's sort
\* keeps rows of equal key in the order of the table scan that fed it
SortsBefore(evs, k, m) ==
    \/ evs[k].created_at < evs[m].created_at
    \/ evs[k].created_at = evs[m].created_at /\ k < m

\* the batches the SELECT can return: the first rows of the sorted queue, as
\* many as the LIMIT lets through
Snapshots(evs, board_id, max_events) ==
    LET q == Queued(evs, board_id)
        n == Limit(max_events, Cardinality(q))
    IN  {[x \in 1..n |-> [id |-> evs[ks[x]].id, event |-> evs[ks[x]].event,
                          payload_json |-> evs[ks[x]].payload_json]] :
         ks \in {f \in [1..n -> q] :
                   /\ \A x, y \in 1..n : x < y => SortsBefore(evs, f[x], f[y])
                   /\ \A k \in q \ {f[x] : x \in 1..n} : \A x \in 1..n :
                        SortsBefore(evs, f[x], k)}}

SampleClaims(evs, batch) ==
    Update(evs, LAMBDA e : \E x \in DOMAIN batch : batch[x].id = e.id,
           LAMBDA e : [e EXCEPT !.status = "processing"])

\* what the snapshot read writes to the table: nothing; no row is claimed
SampleWrite(evs, batch) == evs

\* int(args.get('max_events', 25) or 25)
DefaultMaxEvents == 25
ToolMaxEvents(arg) == IF arg = None \/ arg = Some(0) THEN DefaultMaxEvents ELSE arg[1]

BeginEventDeliversWhenDry(run, lns) ==
    [run EXCEPT !.lns = lns, !.j = 1, !.status = "done", !.last_error = None,
                !.tried = <<>>,
                !.pc = IF lns # <<>> THEN "deliver" ELSE "commit"]

BeginEventFailsUnheard(run, lns) ==
    [run EXCEPT !.lns = lns, !.j = 1,
                !.status = IF run.execute /\ lns = <<>> THEN "failed" ELSE "done",
                !.last_error = None, !.tried = <<>>,
                !.pc = IF run.execute /\ lns # <<>> THEN "deliver" ELSE "commit"]

\* the head of the loop body: the listeners are resolved and the outcome of
\* the event starts as done
BeginEvent(run, lns) ==
    [run EXCEPT !.lns = lns, !.j = 1, !.status = "done", !.last_error = None,
                !.tried = <<>>,
                !.pc = IF run.execute /\ lns # <<>> THEN "deliver" ELSE "commit"]

AfterDeliverNoBreak(run, res) ==
    LET tried == Append(run.tried, [id |-> run.lns[run.j].id, ok |-> res[1],
                                    info |-> res[2]])
        more == IF run.j = Len(run.lns) THEN "commit" ELSE "deliver"
    IN  IF ~res[1]
        THEN [run EXCEPT !.tried = tried, !.status = "failed",
                         !.last_error = Some(res[2]), !.failed = @ + 1,
                         !.j = @ + 1, !.pc = more]
        ELSE [run EXCEPT !.tried = tried, !.j = @ + 1, !.pc = more]

AfterDeliverIgnoresFailure(run, res) ==
    [run EXCEPT !.tried = Append(run.tried, [id |-> run.lns[run.j].id, ok |-> res[1],
                                             info |-> res[2]]),
                !.j = @ + 1,
                !.pc = IF run.j = Len(run.lns) THEN "commit" ELSE "deliver"]

\* one turn of the delivery loop: the first failure sets the outcome and
\* leaves the loop
AfterDeliver(run, res) ==
    LET tried == Append(run.tried, [id |-> run.lns[run.j].id, ok |-> res[1],
                                    info |-> res[2]])
    IN  IF ~res[1]
        THEN [run EXCEPT !.tried = tried, !.status = "failed",
                         !.last_error = Some(res[2]), !.failed = @ + 1,
                         !.pc = "commit"]
        ELSE [run EXCEPT !.tried = tried, !.j = @ + 1,
                         !.pc = IF run.j = Len(run.lns) THEN "commit" ELSE "deliver"]

CommitEventResetsRetry(evs, eid, status, last_error) ==
    Update(evs, LAMBDA e : e.id = eid,
           LAMBDA e : [e EXCEPT !.status = status, !.last_error = last_error,
                                !.retry_count = 0])

CommitEventAtTheEnd(evs, eid, status, last_error) == evs

CommitEventKeepsFailedQueued(evs, eid, status, last_error) ==
    Update(evs, LAMBDA e : e.id = eid,
           LAMBDA e : [e EXCEPT !.status = IF status = "failed" THEN "queued" ELSE status,
                                !.last_error = last_error])

\* UPDATE events SET status=?, updated_at=?, last_error=? WHERE id=?
CommitEvent(evs, eid, status, last_error) ==
    Update(evs, LAMBDA e : e.id = eid,
           LAMBDA e : [e EXCEPT !.status = status, !.last_error = last_error])

AfterCommitCountsDone(run) ==
    LET n == IF run.status = "done" THEN 1 ELSE 0 IN
    IF run.i = Len(run.batch)
    THEN [IdleRun EXCEPT !.board_id = run.board_id, !.execute = run.execute,
                         !.processed = run.processed + n, !.failed = run.failed]
    ELSE [run EXCEPT !.processed = @ + n, !.i = @ + 1, !.pc = "resolve"]

\* the end of the loop body: the next event of the batch, or the return of
\* {"processed": processed, "failed": failed}
AfterCommit(run) ==
    IF run.i = Len(run.batch)
    THEN [IdleRun EXCEPT !.board_id = run.board_id, !.execute = run.execute,
                         !.processed = run.processed + 1, !.failed = run.failed]
    ELSE [run EXCEPT !.processed = @ + 1, !.i = @ + 1, !.pc = "resolve"]

EnvelopeBare(row) == json_loads(row.payload_json)

RetryOnlyFailed(evs, event_id) ==
    Update(evs, LAMBDA e : e.id = event_id /\ e.status = "failed",
           LAMBDA e : [e EXCEPT !.status = "queued", !.retry_count = @ + 1])

RetryClearsError(evs, event_id) ==
    Update(evs, LAMBDA e : e.id = event_id,
           LAMBDA e : [e EXCEPT !.status = "queued", !.retry_count = @ + 1,
                                !.last_error = None])

\* retry_event: UPDATE events SET status='queued', retry_count=retry_count+1
\* WHERE id=?
retry_event(evs, event_id) ==
    Update(evs, LAMBDA e : e.id = event_id,
           LAMBDA e : [e EXCEPT !.status = "queued", !.retry_count = @ + 1])

\* {"event": ev, "payload": payload}, the payload parsed from the stored text
Envelope(row) == [event |-> row.event, payload |-> json_loads(row.payload_json)]

\* Tools.call('process_queue'): the board is resolved and the batch is read
\* in one snapshot.  Processes are interchangeable: a run takes the lowest
\* idle one.
PQStart(p, user_key, board_key, execute, max_events) ==
    /\ runs[p].pc = "idle"
    /\ \A q \in Procs : q < p => runs[q].pc # "idle"
    /\ \E t1 \in SamplesIf(~HasBoard(boards, user_key, board_key), clock) :
        LET eb == ensure_board(boards, t1, user_key, board_key) IN
        IF eb.err # "none" THEN Raised("process_queue", eb.err)
        ELSE \E batch \in Snapshots(events, eb.id, ToolMaxEvents(max_events)) :
            /\ boards' = eb.boards
            /\ clock' = t1
            /\ runs' = [runs EXCEPT ![p] =
                  IF batch = <<>>
                  THEN [IdleRun EXCEPT !.board_id = eb.id, !.execute = execute]
                  ELSE [IdleRun EXCEPT !.board_id = eb.id, !.execute = execute,
                                       !.batch = batch, !.i = 1, !.pc = "resolve"]]
            /\ events' = SampleWrite(events, batch)
            /\ last' = Response("process_queue", "none", None)
            /\ UNCHANGED <<columns, cards, listeners, delivered>>

PQResolve(p) ==
    /\ runs[p].pc = "resolve"
    /\ runs' = [runs EXCEPT ![p] =
          BeginEvent(@, matching_listeners(listeners, @.board_id, @.batch[@.i].event))]
    /\ UNCHANGED <<clock, boards, columns, cards, listeners, events, delivered, last>>

PQDeliver(p) ==
    /\ runs[p].pc = "deliver"
    /\ LET run == runs[p]
           row == run.batch[run.i]
           ln == run.lns[run.j]
       IN  \E out \in Outcomes(ln.kind) :
            LET res == deliver(ln.kind, ln.target, Envelope(row), out) IN
            /\ runs' = [runs EXCEPT ![p] = AfterDeliver(run, res)]
            /\ delivered' = IF res[1]
                            THEN delivered \cup {[event_id |-> row.id, listener |-> ln.id,
                                                  envelope |-> Envelope(row), by |-> p]}
                            ELSE delivered
    /\ UNCHANGED <<clock, boards, columns, cards, listeners, events, last>>

PQCommit(p) ==
    /\ runs[p].pc = "commit"
    /\ LET run == runs[p] IN
        /\ events' = CommitEvent(events, run.batch[run.i].id, run.status, run.last_error)
        /\ runs' = [runs EXCEPT ![p] = AfterCommit(run)]
    /\ UNCHANGED <<clock, boards, columns, cards, listeners, delivered, last>>

\* the host process ends while the run is inside its loop: nothing more is
\* written, and what each earlier turn of the loop committed stays.  The
\* record keeps the batch and the place in it where the run ended.
PQAbort(p) ==
    /\ runs[p].pc \in {"resolve", "deliver", "commit"}
    /\ runs' = [runs EXCEPT ![p] =
          [IdleRun EXCEPT !.board_id = runs[p].board_id, !.execute = runs[p].execute,
                          !.batch = runs[p].batch, !.i = runs[p].i]]
    /\ last' = Response("process_queue", "aborted", None)
    /\ UNCHANGED <<clock, boards, columns, cards, listeners, events, delivered>>

-----------------------------------------------------------------------------
(* Tool handlers of the event bus *)

ToolRegisterListener(user_key, board_key, event, kind, target) ==
    \E t1 \in SamplesIf(~HasBoard(boards, user_key, board_key), clock) :
        LET eb == ensure_board(boards, t1, user_key, board_key) IN
        IF eb.err # "none" THEN Raised("register_listener", eb.err)
        ELSE \E t2 \in Samples(t1) :
            LET al == add_listener(listeners, t2, eb.id, event, kind, target, <<>>) IN
            /\ boards' = eb.boards
            /\ listeners' = al.listeners
            /\ clock' = t2
            /\ last' = Response("register_listener", al.err, None)
            /\ UNCHANGED <<columns, cards, events, runs, delivered>>

ToolRemoveListener(listener_id) ==
    /\ listeners' = remove_listener(listeners, listener_id)
    /\ last' = Response("remove_listener", "none", None)
    /\ UNCHANGED <<clock, boards, columns, cards, events, runs, delivered>>

\* test_event: args.get('payload') or {"hello": "world"}
ToolTestEvent(user_key, board_key, event, payload) ==
    \E t1 \in SamplesIf(~HasBoard(boards, user_key, board_key), clock) :
        LET eb == ensure_board(boards, t1, user_key, board_key) IN
        IF eb.err # "none" THEN Raised("test_event", eb.err)
        ELSE \E t2 \in Samples(t1) :
            LET en == enqueue_event(events, t2, eb.id, event,
                                    IF payload = <<>> THEN [hello |-> "world"]
                                    ELSE payload) IN
            /\ boards' = eb.boards
            /\ events' = en.events
            /\ clock' = t2
            /\ last' = Response("test_event", en.err, None)
            /\ UNCHANGED <<columns, cards, listeners, runs, delivered>>

ToolRetryEvent(event_id) ==
    /\ \A k \in DOMAIN events : events[k].id = event_id => events[k].retry_count < MaxRetry
    /\ events' = retry_event(events, event_id)
    /\ last' = Response("retry_event", "none", None)
    /\ UNCHANGED <<clock, boards, columns, cards, listeners, runs, delivered>>

-----------------------------------------------------------------------------
(* The board store driven through its tool handlers *)

Init ==
    /\ clock = [wraps |-> 0, micros |-> 0]
    /\ boards = <<>>
    /\ columns = <<>>
    /\ cards = <<>>
    /\ listeners = <<>>
    /\ events = <<>>
    /\ runs = [p \in Procs |-> IdleRun]
    /\ delivered = {}
    /\ last = Response("init", "none", None)

CardIds == {cards[i].id : i \in DOMAIN cards} \cup {NoSuchId}
FieldsArgs == {[title |-> <<"u">>, blocked_by |-> Some(<<"x">>)], [column_id |-> 0]}

NextBoard ==
    \/ \E uk \in UserKeys, bk \in BoardKeys, n \in ColumnNames :
         ToolAddColumn(uk, bk, n, None)
    \/ /\ Len(cards) < MaxCards
       /\ \E uk \in UserKeys, bk \in BoardKeys, ti \in Titles, n \in ColumnNames,
             x \in Externals :
            ToolAddCard(uk, bk, ti, n, x)
    \/ \E uk \in UserKeys, bk \in BoardKeys, c \in CardIds, n \in ColumnNames,
          b \in BlockedArgs :
         ToolMoveCard(uk, bk, c, n, b[1], b[2])
    \/ \E uk \in UserKeys, bk \in BoardKeys, c \in CardIds, f \in FieldsArgs :
         ToolUpdateCard(uk, bk, c, f)

SpecBoard == Init /\ [][NextBoard]_vars

\* add_card alone, on two boards, while the cards table holds fewer than
\* MaxStored cards
MaxStored == 2
CardBoardKeys == {"default", "other"}

NextCards ==
    /\ Len(cards) < MaxStored
    /\ \E uk \in UserKeys, bk \in CardBoardKeys, ti \in Titles, n \in ColumnNames,
          x \in Externals :
         ToolAddCard(uk, bk, ti, n, x)

SpecCards == Init /\ [][NextCards]_vars

\* The same handlers with fewer variants of the blocked arguments: one pair
\* that move_card rejects for the target 'blocked' and one that it accepts.
EmitBlockedArgs == {<<None, None>>, <<Some(<<"a">>), Some(<<"r">>)>>}

NextEmit ==
    \/ \E uk \in UserKeys, bk \in BoardKeys, n \in ColumnNames :
         ToolAddColumn(uk, bk, n, None)
    \/ /\ Len(cards) < MaxCards
       /\ \E uk \in UserKeys, bk \in BoardKeys, ti \in Titles, n \in ColumnNames,
             x \in Externals :
            ToolAddCard(uk, bk, ti, n, x)
    \/ \E uk \in UserKeys, bk \in BoardKeys, c \in CardIds, n \in ColumnNames,
          b \in EmitBlockedArgs :
         ToolMoveCard(uk, bk, c, n, b[1], b[2])
    \/ \E uk \in UserKeys, bk \in BoardKeys, c \in CardIds, f \in FieldsArgs :
         ToolUpdateCard(uk, bk, c, f)

SpecEmit == Init /\ [][NextEmit]_vars

-----------------------------------------------------------------------------
(* The event bus of one board, driven through its tool handlers *)

\* The board of the bus exists: the state after a first list_events call.
InitBus ==
    /\ clock = [wraps |-> 0, micros |-> 0]
    /\ boards = <<[id |-> 0, user_key |-> "u1", board_key |-> "default"]>>
    /\ columns = <<>>
    /\ cards = <<>>
    /\ listeners = <<>>
    /\ events = <<>>
    /\ runs = [p \in Procs |-> IdleRun]
    /\ delivered = {}
    /\ last = Response("list_events", "none", None)

EventNames == {"card_created"}
ListenerArgs == {<<"card_created", "command", "cmd">>, <<"*", "http", "url">>}
Payloads == {[id |-> "c1"]}
ListenerIds == {listeners[k].id : k \in DOMAIN listeners}
EventIds == {events[k].id : k \in DOMAIN events}
MaxEventsArgs == {None, Some(1)}

Register ==
    \E uk \in UserKeys, bk \in BoardKeys, a \in ListenerArgs :
        ToolRegisterListener(uk, bk, a[1], a[2], a[3])
Remove == \E l \in ListenerIds : ToolRemoveListener(l)
TestEvent ==
    \E uk \in UserKeys, bk \in BoardKeys, e \in EventNames, pl \in Payloads :
        ToolTestEvent(uk, bk, e, pl)
Retry == \E e \in EventIds : ToolRetryEvent(e)

\* one processor at a time, dry or executing
NextBus ==
    \/ Len(listeners) + Len(events) < MaxBusRows /\ Register
    \/ Remove
    \/ Len(listeners) + Len(events) < MaxBusRows /\ TestEvent
    \/ Retry
    \/ \E uk \in UserKeys, bk \in BoardKeys, x \in BOOLEAN, n \in MaxEventsArgs :
         PQStart(1, uk, bk, x, n)
    \/ PQResolve(1)
    \/ PQDeliver(1)
    \/ PQCommit(1)

SpecBus == InitBus /\ [][NextBus]_vars

\* two processors that may overlap, both executing
RaceEventArgs == {<<"card_created", [id |-> "c1"]>>,
                  <<"card_moved", [id |-> "c1", to |-> "done"]>>}

NextRace ==
    \/ Len(listeners) < MaxRaceListeners /\ Register
    \/ Remove
    \/ /\ Len(events) < MaxRaceEvents
       /\ \E uk \in UserKeys, bk \in BoardKeys, a \in RaceEventArgs :
            ToolTestEvent(uk, bk, a[1], a[2])
    \/ Retry
    \/ \E p \in Procs, uk \in UserKeys, bk \in BoardKeys, n \in MaxEventsArgs :
         PQStart(p, uk, bk, TRUE, n)
    \/ \E p \in Procs : PQResolve(p)
    \/ \E p \in Procs : PQDeliver(p)
    \/ \E p \in Procs : PQCommit(p)

SpecRace == InitBus /\ [][NextRace]_vars

-----------------------------------------------------------------------------
(* The listener registry of two boards, with one executing processor *)

MaxRegListeners == 2
MaxRegEvents == 1
RegBoardKeys == {"default", "other"}
RegEventNames == {"card_created", "card_moved"}
RegListenerArgs == {<<"card_created", "command", "cmd">>, <<"card_moved", "http", "url">>,
                    <<"*", "email", "addr">>}

NextRegistry ==
    \/ /\ Len(listeners) < MaxRegListeners
       /\ \E uk \in UserKeys, bk \in RegBoardKeys, a \in RegListenerArgs :
            ToolRegisterListener(uk, bk, a[1], a[2], a[3])
    \/ Remove
    \/ /\ Len(events) < MaxRegEvents
       /\ \E uk \in UserKeys, bk \in RegBoardKeys, e \in RegEventNames, pl \in Payloads :
            ToolTestEvent(uk, bk, e, pl)
    \/ \E uk \in UserKeys, bk \in RegBoardKeys : PQStart(1, uk, bk, TRUE, None)
    \/ PQResolve(1)
    \/ PQDeliver(1)
    \/ PQCommit(1)

SpecRegistry == InitBus /\ [][NextRegistry]_vars

-----------------------------------------------------------------------------
(* One executing processor working through batches of up to two events, *)
(* with listeners of every kind; the host may end a run part-way        *)

MaxBatchListeners == 2
MaxBatchEvents == 2
BatchListenerArgs == {<<"card_created", "command", "cmd">>, <<"*", "http", "url">>,
                      <<"*", "email", "addr">>}

NextBatch ==
    \/ /\ Len(listeners) < MaxBatchListeners
       /\ \E uk \in UserKeys, bk \in BoardKeys, a \in BatchListenerArgs :
            ToolRegisterListener(uk, bk, a[1], a[2], a[3])
    \/ Len(events) < MaxBatchEvents /\ TestEvent
    \/ \E uk \in UserKeys, bk \in BoardKeys, n \in MaxEventsArgs :
         PQStart(1, uk, bk, TRUE, n)
    \/ PQResolve(1)
    \/ PQDeliver(1)
    \/ PQCommit(1)
    \/ PQAbort(1)

SpecBatch == InitBus /\ [][NextBatch]_vars

-----------------------------------------------------------------------------
(* ensure_board called by two processes that may overlap *)

EnsureKeys == {"u1", "u2"}

\* a process between calls: the arguments and the outcome of its last call
IdleEnsure ==
    [pc |-> "idle", user_key |-> "", board_key |-> "", bid |-> 0, ret |-> None,
     err |-> "none"]

\* the SELECT of ensure_board: the row found is returned; with none found
\* an id is drawn for the INSERT to come
EBSelect(p, user_key, board_key) ==
    /\ runs[p].pc = "idle"
    /\ LET found == Rows(boards, LAMBDA b : b.user_key = user_key
                                          /\ b.board_key = board_key)
       IN  IF found # <<>>
           THEN /\ runs' = [runs EXCEPT ![p] =
                      [IdleEnsure EXCEPT !.user_key = user_key, !.board_key = board_key,
                                         !.bid = found[1].id,
                                         !.ret = Some(found[1].id)]]
                /\ clock' = clock
           ELSE \E t \in Samples(clock) :
                /\ runs' = [runs EXCEPT ![p] =
                      [IdleEnsure EXCEPT !.pc = "insert", !.user_key = user_key,
                                         !.board_key = board_key, !.bid = uid(t)]]
                /\ clock' = t
    /\ UNCHANGED <<boards, columns, cards, listeners, events, delivered, last>>

\* the INSERT and commit of ensure_board, and its return or its exception
EBInsert(p) ==
    /\ runs[p].pc = "insert"
    /\ LET run == runs[p]
           ins == insert_board(boards, [id |-> run.bid, user_key |-> run.user_key,
                                        board_key |-> run.board_key])
       IN  /\ boards' = ins.boards
           /\ runs' = [runs EXCEPT ![p] =
                 [run EXCEPT !.pc = "idle", !.err = ins.err,
                             !.ret = IF ins.err = "none" THEN Some(run.bid) ELSE None]]
           /\ last' = Response("ensure_board", ins.err, None)
    /\ UNCHANGED <<clock, columns, cards, listeners, events, delivered>>

InitEnsure ==
    /\ clock = [wraps |-> 0, micros |-> 0]
    /\ boards = <<>>
    /\ columns = <<>>
    /\ cards = <<>>
    /\ listeners = <<>>
    /\ events = <<>>
    /\ runs = [p \in Procs |-> IdleEnsure]
    /\ delivered = {}
    /\ last = Response("init", "none", None)

NextEnsure ==
    \/ \E p \in Procs, uk \in EnsureKeys, bk \in BoardKeys : EBSelect(p, uk, bk)
    \/ \E p \in Procs : EBInsert(p)

SpecEnsure == InitEnsure /\ [][NextEnsure]_vars

-----------------------------------------------------------------------------
(* The column operations of the store called by two processes that may    *)
(* overlap.  Each statement a call runs against the database is one step: *)
(* a SELECT reads the committed table, an INSERT or UPDATE with its       *)
(* commit is one write transaction.                                        *)

MaxColMicros == 5
MaxColCards == 1

DEFAULT_COLUMNS ==
    <<<<"backlog", None>>, <<"current_sprint", None>>, <<"in_progress", None>>,
      <<"blocked", None>>, <<"done", None>>, <<"archived", None>>>>

RaceColumnNames == {"backlog", "x"}

\* the clock of these calls: the same microsecond or the next
ColSamples(t) == SamplesUpTo(t, MaxColMicros, 0)

\* n samples in a row, starting from the sample t
RECURSIVE SampleSeqs(_, _)
SampleSeqs(t, n) ==
    IF n = 0 THEN {<<>>}
    ELSE UNION {{<<s>> \o rest : rest \in SampleSeqs(s, n - 1)} : s \in ColSamples(t)}

\* the loop of seed_defaults_for_board from the k-th default column on: each
\* turn draws an id and INSERTs the row at position k-1; an id or a
\* (board_id, name) already in the table raises
RECURSIVE InsertDefaults(_, _, _, _)
InsertDefaults(cols, ts, board_id, k) ==
    IF k > Len(DEFAULT_COLUMNS) THEN [columns |-> cols, err |-> "none"]
    ELSE LET row == [id |-> uid(ts[k]), board_id |-> board_id,
                     name |-> DEFAULT_COLUMNS[k][1],
                     wip_limit |-> DEFAULT_COLUMNS[k][2], position |-> k - 1]
         IN  IF Exists(cols, LAMBDA c : c.id = row.id
                                  \/ (c.board_id = row.board_id /\ c.name = row.name))
             THEN [columns |-> cols, err |-> "IntegrityError"]
             ELSE InsertDefaults(Append(cols, row), ts, board_id, k + 1)

\* the six INSERTs and the commit, or the rollback when an INSERT raised
seed_insert(cols, ts, board_id) ==
    LET r == InsertDefaults(cols, ts, board_id, 1)
    IN  IF r.err = "none" THEN r ELSE [columns |-> cols, err |-> r.err]

\* a process between calls
IdleCol ==
    [pc |-> "idle", op |-> "none", board_id |-> 0, name |-> "", pos |-> 0,
     col |-> None, card_id |-> 0, prev |-> None, err |-> "none"]

OtherVarsCol == <<boards, listeners, events, delivered>>

\* seed_defaults_for_board: SELECT COUNT(1); with a count other than 0 the
\* call returns
SeedCount(p, board_id) ==
    /\ runs[p].pc = "idle"
    /\ LET cnt == Len(Rows(columns, LAMBDA c : c.board_id = board_id))
       IN  runs' = [runs EXCEPT ![p] =
              IF cnt = 0
              THEN [IdleCol EXCEPT !.op = "seed", !.board_id = board_id,
                                   !.pc = "seed_insert"]
              ELSE IdleCol]
    /\ UNCHANGED <<clock, columns, cards, last>>
    /\ UNCHANGED OtherVarsCol

\* seed_defaults_for_board: the loop and the commit
SeedInsert(p) ==
    /\ runs[p].pc = "seed_insert"
    /\ \E ts \in SampleSeqs(clock, Len(DEFAULT_COLUMNS)) :
         LET r == seed_insert(columns, ts, runs[p].board_id) IN
         /\ columns' = r.columns
         /\ clock' = ts[Len(ts)]
         /\ runs' = [runs EXCEPT ![p] = IdleCol]
         /\ last' = Response("seed_defaults", r.err, None)
    /\ UNCHANGED cards
    /\ UNCHANGED OtherVarsCol

\* add_column: SELECT COALESCE(MAX(position), -1)+1
CallAddColumn(p, board_id, name) ==
    /\ runs[p].pc = "idle"
    /\ runs' = [runs EXCEPT ![p] =
          [IdleCol EXCEPT !.op = "add_column", !.board_id = board_id, !.name = name,
                          !.pos = NextPosition(columns, board_id),
                          !.pc = "ac_insert"]]
    /\ UNCHANGED <<clock, columns, cards, last>>
    /\ UNCHANGED OtherVarsCol

\* a call once it holds its column: add_card and move_card go on to their
\* write, add_column and ensure_column return the column
AfterColumn(run, col) ==
    IF run.op = "add_card" THEN [run EXCEPT !.col = Some(col), !.pc = "card_insert"]
    ELSE IF run.op = "move_card" THEN [run EXCEPT !.col = Some(col), !.pc = "card_update"]
    ELSE IdleCol

\* ensure_column, add_card and move_card: column_by_name for the column
\* asked for (move_card reads the card's present column first); a column
\* found is the one used, otherwise add_column is called
CallEnsureColumn(p, op, board_id, name, card_id) ==
    /\ runs[p].pc = "idle"
    /\ LET col == column_by_name(columns, board_id, name)
           run == [IdleCol EXCEPT !.op = op, !.board_id = board_id, !.name = name,
                                  !.card_id = card_id,
                                  !.prev = IF op = "move_card"
                                           THEN current_card_column(columns, cards, card_id)
                                           ELSE None]
       IN  runs' = [runs EXCEPT ![p] =
              IF col # None THEN AfterColumn(run, col[1])
              ELSE [run EXCEPT !.pc = "ac_select"]]
    /\ UNCHANGED <<clock, columns, cards, last>>
    /\ UNCHANGED OtherVarsCol

\* add_column called by ensure_column: the SELECT of the position
ACSelect(p) ==
    /\ runs[p].pc = "ac_select"
    /\ runs' = [runs EXCEPT ![p] =
          [@ EXCEPT !.pos = NextPosition(columns, runs[p].board_id),
                    !.pc = "ac_insert"]]
    /\ UNCHANGED <<clock, columns, cards, last>>
    /\ UNCHANGED OtherVarsCol

\* add_column: uid(), INSERT OR IGNORE with the position read before,
\* commit, and the return of the column built from the arguments
ACInsert(p) ==
    /\ runs[p].pc = "ac_insert"
    /\ \E t \in ColSamples(clock) :
         LET run == runs[p]
             row == [id |-> uid(t), board_id |-> run.board_id, name |-> run.name,
                     wip_limit |-> None, position |-> run.pos]
         IN  /\ columns' = InsertColumnOrIgnore(columns, row)
             /\ clock' = t
             /\ runs' = [runs EXCEPT ![p] =
                   AfterColumn(run, [id |-> row.id, name |-> row.name,
                                     wip_limit |-> None, position |-> row.position])]
    /\ last' = Response(runs[p].op, "none", None)
    /\ UNCHANGED cards
    /\ UNCHANGED OtherVarsCol

\* add_card: uid() and the INSERT of the card into the column held
CardInsert(p) ==
    /\ runs[p].pc = "card_insert"
    /\ \E t \in ColSamples(clock) :
         LET run == runs[p]
             ins == insert_card(cards, t, run.board_id, <<"t">>, run.col[1], <<"", "">>)
         IN  /\ cards' = ins.cards
             /\ clock' = t
             /\ runs' = [runs EXCEPT ![p] = IdleCol]
             /\ last' = Response("add_card", ins.err, None)
    /\ UNCHANGED columns
    /\ UNCHANGED OtherVarsCol

\* move_card: the test of the blocked arguments (none are passed) and the
\* UPDATE of the card to the column held
CardUpdate(p) ==
    /\ runs[p].pc = "card_update"
    /\ LET run == runs[p]
           upd == update_moved(cards, run.col[1], strftime(clock), run.card_id,
                               None, None)
       IN  /\ cards' = upd.cards
           /\ runs' = [runs EXCEPT ![p] = IdleCol]
           /\ last' = Response("move_card", upd.err, None)
    /\ UNCHANGED <<clock, columns>>
    /\ UNCHANGED OtherVarsCol

\* the one board exists: the state after a first list_events call
InitColumns ==
    /\ clock = [wraps |-> 0, micros |-> 0]
    /\ boards = <<[id |-> 0, user_key |-> "u1", board_key |-> "default"]>>
    /\ columns = <<>>
    /\ cards = <<>>
    /\ listeners = <<>>
    /\ events = <<>>
    /\ runs = [p \in Procs |-> IdleCol]
    /\ delivered = {}
    /\ last = Response("list_events", "none", None)

BoardIds == {boards[k].id : k \in DOMAIN boards}

NextColumns ==
    \/ \E p \in Procs, b \in BoardIds : SeedCount(p, b)
    \/ \E p \in Procs : SeedInsert(p)
    \/ \E p \in Procs, b \in BoardIds, n \in RaceColumnNames : CallAddColumn(p, b, n)
    \/ \E p \in Procs, b \in BoardIds, n \in RaceColumnNames :
         CallEnsureColumn(p, "ensure_column", b, n, 0)
    \/ /\ Len(cards) < MaxColCards
       /\ \E p \in Procs, b \in BoardIds, n \in RaceColumnNames :
            CallEnsureColumn(p, "add_card", b, n, 0)
    \/ \E p \in Procs, b \in BoardIds, n \in RaceColumnNames, c \in CardIds \ {NoSuchId} :
         CallEnsureColumn(p, "move_card", b, n, c)
    \/ \E p \in Procs : ACSelect(p)
    \/ \E p \in Procs : ACInsert(p)
    \/ \E p \in Procs : CardInsert(p)
    \/ \E p \in Procs : CardUpdate(p)

SpecColumns == InitColumns /\ [][NextColumns]_vars

-----------------------------------------------------------------------------
(* Properties of the board store, under SpecBoard *)

AllNull(c) == c.blocked_by = None /\ c.blocked_reason = None /\ c.blocked_since = None
AllSet(c) == c.blocked_by # None /\ c.blocked_reason # None /\ c.blocked_since # None

\* C1: after any sequence of add_card, move_card (accepted or rejected) and
\* update_card calls, every card has blocked_by, blocked_reason and
\* blocked_since all null or all non-null.
C1_BlockedTriState == \A k \in DOMAIN cards : AllNull(cards[k]) \/ AllSet(cards[k])

\* a card that was moved to 'blocked' and then updated
C1_Witness ==
    \E k \in DOMAIN cards : AllSet(cards[k]) /\ cards[k].title = <<"u">>
                            /\ last.op = "update_card"

\* blocked_by absent or empty, or blocked_reason absent, empty or blank
Blank(text) == \A k \in DOMAIN text : text[k] = " "
BadBlockedArgs(b) == b[1] = None \/ b[1][1] = <<>> \/ b[2] = None \/ Blank(b[2][1])

\* C9: move_card to 'blocked' with blocked_by absent or empty, or
\* blocked_reason absent, empty or whitespace-only, fails with the
\* validation error and leaves every card (its column and its three blocked
\* fields) as it was, whatever column the card was in.
C9_RejectedMoveKeepsCard ==
    [][last'.op = "move_card" =>
         \A uk \in UserKeys, bk \in BoardKeys, c \in CardIds, b \in BlockedArgs :
            (BadBlockedArgs(b) /\ ToolMoveCard(uk, bk, c, "blocked", b[1], b[2]))
               => (last'.err = "ValueError" /\ cards' = cards)]_vars

\* a move to 'blocked' was rejected while a card is blocked
C9_Witness ==
    /\ last = Response("move_card", "ValueError", None)
    /\ \E k \in DOMAIN cards : AllSet(cards[k])

\* C10: a move_card rejected with the validation error leaves the whole
\* store as it was: no board or column is created, no card is altered and no
\* event is enqueued.
C10_RejectedMoveKeepsStore ==
    [][\A uk \in UserKeys, bk \in BoardKeys, c \in CardIds, n \in ColumnNames,
          b \in BlockedArgs :
         (ToolMoveCard(uk, bk, c, n, b[1], b[2]) /\ last'.err = "ValueError")
            => UNCHANGED <<boards, columns, cards, listeners, events>>]_vars

\* the card with the id, and the name of the column its column_id joins to
CardRow(cds, card_id) == cds[CHOOSE k \in DOMAIN cds : cds[k].id = card_id]
ColumnNameOf(cols, column_id) ==
    {cols[k].name : k \in {j \in DOMAIN cols : cols[j].id = column_id}}

\* C11: after a successful move_card of an existing card, the card is in
\* the target column; for the target 'blocked' its blocked_by and
\* blocked_reason are the arguments and blocked_since is the time of the
\* call, for any other target the three are null, whatever the previous
\* column and the blocked arguments were.
C11_MoveSetsOrClears ==
    [][(last'.op = "move_card" /\ last'.err = "none") =>
         \A uk \in UserKeys, bk \in BoardKeys, c \in CardIds \ {NoSuchId},
            n \in ColumnNames, b \in BlockedArgs :
            ToolMoveCard(uk, bk, c, n, b[1], b[2])
               => LET card == CardRow(cards', c) IN
                  /\ ColumnNameOf(columns', card.column_id) = {n}
                  /\ IF n = "blocked"
                     THEN /\ card.blocked_by = b[1]
                          /\ card.blocked_reason = b[2]
                          /\ card.blocked_since # None
                          /\ strftime(clock) <= card.blocked_since[1]
                          /\ card.blocked_since[1] <= strftime(clock')
                     ELSE AllNull(card)]_vars

\* the id of the board of the keys
BoardId(bs, user_key, board_key) ==
    bs[CHOOSE k \in DOMAIN bs : bs[k].user_key = user_key /\ bs[k].board_key = board_key].id

\* C13: when the enqueue of add_column, add_card, move_card or update_card
\* fails (the queue is as before the call), the call still answers without
\* an error and the store holds what the mutation wrote; a call answers an
\* error only when the mutation itself raised, before any enqueue.
C13_EnqueueFailureKeepsMutation ==
    /\ [][(last'.op \in {"add_column", "add_card", "move_card", "update_card"}
           /\ last'.err # "none")
            => /\ last'.op \in {"add_card", "move_card"}
               /\ last'.err \in {"IntegrityError", "ValueError"}
               /\ cards' = cards /\ events' = events]_vars
    /\ [][(events' = events /\ last'.err = "none" /\ last'.op = "add_column") =>
            \A uk \in UserKeys, bk \in BoardKeys, n \in ColumnNames :
                 ToolAddColumn(uk, bk, n, None)
                    => columns' = add_column(columns, clock', BoardId(boards', uk, bk),
                                             n, None).columns]_vars
    /\ [][(events' = events /\ last'.err = "none" /\ last'.op = "add_card") =>
            \A uk \in UserKeys, bk \in BoardKeys, ti \in Titles, n \in ColumnNames,
               x \in Externals :
                 ToolAddCard(uk, bk, ti, n, x)
                    => /\ Len(cards') = Len(cards) + 1
                       /\ cards'[Len(cards')].title = ti
                       /\ cards'[Len(cards')].id = uid(clock')
                       /\ cards'[Len(cards')].external_type = x[1]
                       /\ cards'[Len(cards')].external_id = x[2]
                       /\ \A k \in DOMAIN cards : cards'[k] = cards[k]]_vars
    /\ [][(events' = events /\ last'.err = "none" /\ last'.op = "move_card") =>
            \A uk \in UserKeys, bk \in BoardKeys, c \in CardIds, n \in ColumnNames,
               b \in EmitBlockedArgs :
                 ToolMoveCard(uk, bk, c, n, b[1], b[2])
                    => cards' = move_card(columns, cards, clock', BoardId(boards', uk, bk),
                                          c, n, b[1], b[2]).cards]_vars
    /\ [][(events' = events /\ last'.err = "none" /\ last'.op = "update_card") =>
            \A uk \in UserKeys, bk \in BoardKeys, c \in CardIds, f \in FieldsArgs :
                 ToolUpdateCard(uk, bk, c, f)
                    => cards' = update_card(cards, c, f).cards]_vars

\* no event was ever enqueued, yet a card was created, moved to 'blocked'
\* and retitled, and the last call, an add_column, answered without error
C13_Witness ==
    /\ events = <<>>
    /\ last = Response("add_column", "none", None)
    /\ Len(columns) = 2
    /\ \E k \in DOMAIN cards : AllSet(cards[k]) /\ cards[k].title = <<"u">>

\* C14: board changes and emitted events correspond one to one.  Stated
\* for the calls whose enqueue went through: the call adds one event, queued
\* with retry_count 0; a column is added exactly when the event is
\* column_created, a card is created exactly when it is card_created, and a
\* card_moved or card_updated event names a card that exists.
C14_ChangesAndEvents ==
    [][events' # events =>
         LET new == events'[Len(events')]
             named == json_loads(new.payload_json).id
         IN  /\ Len(events') = Len(events) + 1
             /\ \A k \in DOMAIN events : events'[k] = events[k]
             /\ new.status = "queued" /\ new.retry_count = 0
             /\ new.event \in {"column_created", "card_created", "card_moved",
                               "card_updated"}
             /\ (new.event = "column_created") <=> (Len(columns') = Len(columns) + 1)
             /\ (new.event = "card_created") <=> (Len(cards') = Len(cards) + 1)
             /\ new.event \in {"card_moved", "card_updated"}
                  => \E k \in DOMAIN cards : cards[k].id = named]_vars

\* C15: add_card with no external linkage (external_type and external_id
\* both empty) succeeds and adds exactly one card, however many such cards
\* the board holds.  Stated for the calls that resolved their board and drew
\* a card id not yet in the table.
C15_PlainCardsAlwaysAdded ==
    [][last'.op = "add_card" =>
         \A uk \in UserKeys, bk \in CardBoardKeys, ti \in Titles, n \in ColumnNames :
            (/\ ToolAddCard(uk, bk, ti, n, <<"", "">>)
             /\ HasBoard(boards', uk, bk)
             /\ \A k \in DOMAIN cards : cards[k].id # uid(clock'))
               => (last'.err = "none" /\ Len(cards') = Len(cards) + 1)]_vars

-----------------------------------------------------------------------------
(* Properties of ensure_board, under SpecEnsure *)

BoardsOf(user_key, board_key) ==
    {k \in DOMAIN boards : boards[k].user_key = user_key /\ boards[k].board_key = board_key}

\* C12: under any interleaving of ensure_board calls there is at most one
\* board row per (user_key, board_key); a call that returns returns the id
\* of that row, which never changes, so all calls for a pair return the same
\* id; a call that finds the row inserts nothing.
C12_EnsureBoardIdempotent ==
    /\ [](\A uk \in EnsureKeys, bk \in BoardKeys : Cardinality(BoardsOf(uk, bk)) <= 1)
    /\ [](\A p \in Procs : runs[p].ret # None
            => \E k \in BoardsOf(runs[p].user_key, runs[p].board_key) :
                  boards[k].id = runs[p].ret[1])
    /\ [][/\ Len(boards') >= Len(boards)
          /\ \A k \in DOMAIN boards : boards'[k] = boards[k]]_vars
    /\ [][\A p \in Procs, uk \in EnsureKeys, bk \in BoardKeys :
            (EBSelect(p, uk, bk) /\ BoardsOf(uk, bk) # {})
               => (boards' = boards /\ runs'[p].pc = "idle"
                   /\ runs'[p].ret = Some(boards[CHOOSE k \in BoardsOf(uk, bk) : TRUE].id))]_vars

\* two calls for the same pair overlapped: one inserted the row and
\* returned its id, the INSERT of the other (with an id of its own) raised
C12_Witness ==
    /\ Len(boards) = 1
    /\ runs[1].pc = "idle" /\ runs[1].ret = Some(boards[1].id)
    /\ runs[2].pc = "idle" /\ runs[2].err = "IntegrityError"
    /\ runs[2].user_key = runs[1].user_key /\ runs[2].board_key = runs[1].board_key
    /\ runs[2].bid # boards[1].id

-----------------------------------------------------------------------------
(* Properties of the listener registry, under SpecRegistry *)

EventRow(evs, eid) == evs[CHOOSE k \in DOMAIN evs : evs[k].id = eid]
Current(run) == run.batch[run.i]

\* the ids of the listeners that qualify for an event of a board
Qualifying(lns, board_id, event) ==
    {lns[k].id : k \in {j \in DOMAIN lns : /\ lns[j].board_id = board_id
                                           /\ lns[j].active = 1
                                           /\ lns[j].event \in {event, "*"}}}
ListedIds(found) == {found[k].id : k \in DOMAIN found}

\* C16: the listeners matched for (board, event) are exactly the listeners
\* of that board that are active and subscribed to that event name or to
\* '*', each once -- in every registry reached, for every board and name,
\* and in particular for the listeners a run resolves for an event.
C16_MatchingExact ==
    /\ [](\A b \in {boards[k].id : k \in DOMAIN boards}, e \in RegEventNames :
            LET found == matching_listeners(listeners, b, e) IN
            /\ ListedIds(found) = Qualifying(listeners, b, e)
            /\ Len(found) = Cardinality(ListedIds(found)))
    /\ [][PQResolve(1)
            => ListedIds(runs'[1].lns)
                 = Qualifying(listeners, runs[1].board_id, Current(runs[1]).event)]_vars

\* a run resolved one listener out of two registered: the other is of the
\* same board and active, but subscribed to another event name
C16_Witness ==
    /\ runs[1].pc \in {"deliver", "commit"} /\ Len(runs[1].lns) = 1
    /\ Len(listeners) = 2
    /\ \A k \in DOMAIN listeners :
         listeners[k].active = 1 /\ listeners[k].board_id = runs[1].board_id
    /\ \E k \in DOMAIN listeners : listeners[k].event \notin {Current(runs[1]).event, "*"}

C20_KindsAccepted ==
    \A k \in DOMAIN listeners : listeners[k].kind \in {"command", "http"}

-----------------------------------------------------------------------------
(* Properties of the queue processor, under SpecBus and SpecRace *)


\* C18: the queue is append-only.  No step removes an event or changes its
\* id, board, name, payload or time of creation; a step of process_queue
\* other than its status write changes no event, and the status write
\* changes only status and last_error of the event at hand, which is one of
\* the batch the run sampled; retry changes only status and retry_count of
\* the event named.
C18_AppendOnly ==
    /\ [][/\ Len(events') >= Len(events)
          /\ \A k \in DOMAIN events :
               /\ events'[k].id = events[k].id
               /\ events'[k].board_id = events[k].board_id
               /\ events'[k].event = events[k].event
               /\ events'[k].payload_json = events[k].payload_json
               /\ events'[k].created_at = events[k].created_at]_vars
    /\ [][\A p \in Procs : (runs'[p] # runs[p] /\ runs[p].pc # "commit")
            => events' = events]_vars
    /\ [][\A p \in Procs : PQCommit(p)
            => /\ \E x \in DOMAIN runs[p].batch : runs[p].batch[x].id = Current(runs[p]).id
               /\ DOMAIN events' = DOMAIN events
               /\ \A k \in DOMAIN events :
                    events'[k] = IF events[k].id = Current(runs[p]).id
                                 THEN [events[k] EXCEPT !.status = events'[k].status,
                                                        !.last_error = events'[k].last_error]
                                 ELSE events[k]]_vars
    /\ [][\A e \in EventIds : ToolRetryEvent(e)
            => /\ DOMAIN events' = DOMAIN events
               /\ \A k \in DOMAIN events :
                    events'[k] = IF events[k].id = e
                                 THEN [events[k] EXCEPT !.status = events'[k].status,
                                                        !.retry_count = events'[k].retry_count]
                                 ELSE events[k]]_vars

\* of two events, the first was retried and then committed failed, the
\* second was committed done
C18_Witness ==
    /\ Len(events) = 2
    /\ events[1].status = "failed" /\ events[1].retry_count = 1
    /\ events[1].last_error # None
    /\ events[2].status = "done"

\* C2: in an executing run, when a delivery for an event fails, the
\* listeners attempted are exactly the resolved ones up to and including
\* the first that failed, in order, none after it; the event is committed
\* failed, with that listener's reason as last_error.
C2_FirstFailureStops ==
    [][\A p \in Procs :
         (PQCommit(p) /\ \E m \in DOMAIN runs[p].tried : ~runs[p].tried[m].ok)
            => LET run == runs[p]
                   k == Len(run.tried)
               IN  /\ run.execute
                   /\ k <= Len(run.lns)
                   /\ \A m \in 1..k : run.tried[m].id = run.lns[m].id
                   /\ \A m \in 1..k : (run.tried[m].ok <=> (m < k))
                   /\ EventRow(events', Current(run).id).status = "failed"
                   /\ EventRow(events', Current(run).id).last_error
                        = Some(run.tried[k].info)
                   /\ runs'[p].failed = run.failed]_vars

\* the first of two listeners was delivered the event, the second failed:
\* the event is failed and the run counted it
C2_Witness ==
    /\ runs[1].pc = "idle" /\ runs[1].execute /\ runs[1].failed = 1
    /\ Len(listeners) = 2 /\ Len(events) = 1
    /\ events[1].status = "failed" /\ events[1].retry_count = 0
    /\ \E d \in delivered : d.event_id = events[1].id /\ d.listener = listeners[1].id

\* C3: a dry run (execute false) commits every event of its batch as done
\* and delivers nothing, whatever listeners match.
C3_DryRun ==
    /\ [](\A p \in Procs : (runs[p].pc # "idle" /\ ~runs[p].execute)
            => (runs[p].pc # "deliver" /\ runs[p].tried = <<>> /\ runs[p].failed = 0))
    /\ [][\A p \in Procs : (runs[p].pc # "idle" /\ ~runs[p].execute /\ runs'[p] # runs[p])
            => delivered' = delivered]_vars
    /\ [][\A p \in Procs : (PQCommit(p) /\ ~runs[p].execute)
            => /\ EventRow(events', Current(runs[p]).id).status = "done"
               /\ EventRow(events', Current(runs[p]).id).last_error = None
               /\ runs'[p].failed = 0
               /\ (runs'[p].pc = "idle" => runs'[p].processed = Len(runs[p].batch))]_vars

\* a dry run has returned after two events, both done, with an active
\* matching listener and nothing delivered
C3_Witness ==
    /\ runs[1].pc = "idle" /\ ~runs[1].execute /\ runs[1].processed = 2
    /\ \A k \in DOMAIN events : events[k].status = "done"
    /\ \E k \in DOMAIN listeners : listeners[k].active = 1
    /\ delivered = {}

\* no active listener of the board is on the event or on '*'
Unheard(board_id, event) ==
    ~\E k \in DOMAIN listeners :
        /\ listeners[k].board_id = board_id
        /\ listeners[k].active = 1
        /\ listeners[k].event \in {event, "*"}

\* C4: in an executing run, an event that no active listener of the board
\* matches is committed as done: nothing is delivered for it and it is not
\* counted as failed.
C4_NoSubscriberIsDone ==
    /\ [][\A p \in Procs :
            (PQResolve(p) /\ runs[p].execute
                /\ Unheard(runs[p].board_id, Current(runs[p]).event))
               => (runs'[p].lns = <<>> /\ runs'[p].pc = "commit")]_vars
    /\ [][\A p \in Procs :
            (PQCommit(p) /\ runs[p].execute /\ runs[p].lns = <<>>)
               => /\ runs[p].tried = <<>>
                  /\ EventRow(events', Current(runs[p]).id).status = "done"
                  /\ EventRow(events', Current(runs[p]).id).last_error = None
                  /\ runs'[p].failed = runs[p].failed
                  /\ delivered' = delivered]_vars

\* an executing run has returned: its event is done and nothing was
\* delivered, the only listener having been deactivated
C4_Witness ==
    /\ runs[1].pc = "idle" /\ runs[1].execute
    /\ runs[1].processed = 1 /\ runs[1].failed = 0
    /\ Len(events) = 1 /\ events[1].status = "done"
    /\ Len(listeners) = 1 /\ listeners[1].active = 0
    /\ delivered = {}

\* C5: retry on an existing event, whatever its status and count, leaves it
\* queued with retry_count one greater and changes nothing else in the queue.
C5_RetryRequeues ==
    [][\A e \in EventIds : ToolRetryEvent(e)
         => /\ DOMAIN events' = DOMAIN events
            /\ \A k \in DOMAIN events :
                 IF events[k].id = e
                 THEN events'[k] = [events[k] EXCEPT !.status = "queued",
                                                     !.retry_count = events[k].retry_count + 1]
                 ELSE events'[k] = events[k]]_vars

\* an event retried twice is queued beside one that is done
C5_Witness ==
    /\ last.op = "retry_event"
    /\ \E k \in DOMAIN events : events[k].retry_count = 2 /\ events[k].status = "queued"
    /\ \E k \in DOMAIN events : events[k].retry_count = 0 /\ events[k].status = "done"

\* C6: a processor run only moves an event from queued to done or failed; an
\* event that is done or failed keeps its status until retry is invoked on it.
C6_OnlyRetryRequeues ==
    [][\A k \in DOMAIN events :
         (events[k].status \in {"done", "failed"}
             /\ events'[k].status # events[k].status)
            => (events'[k].status = "queued" /\ ToolRetryEvent(events[k].id))]_vars

\* C7: when only executing runs are made, an event is committed as done only
\* by a run that has resolved its listeners, and every listener that run
\* resolved has by then been delivered the event's envelope successfully.
C7_AtLeastOnce ==
    /\ [][\A p \in Procs : (PQCommit(p) /\ runs[p].status = "done")
            => \A m \in DOMAIN runs[p].lns : \E d \in delivered :
                  /\ d.event_id = Current(runs[p]).id
                  /\ d.listener = runs[p].lns[m].id
                  /\ d.envelope = Envelope(EventRow(events, Current(runs[p]).id))]_vars
    /\ [][\A k \in DOMAIN events :
            (events'[k].status = "done" /\ events[k].status # "done")
               => \E p \in Procs : /\ PQCommit(p)
                                   /\ runs[p].status = "done"
                                   /\ Current(runs[p]).id = events[k].id]_vars

\* an event retried once is done again and its listener, still active, was
\* delivered it
C7_Witness ==
    /\ Len(events) = 1 /\ events[1].status = "done" /\ events[1].retry_count = 1
    /\ Len(listeners) = 1 /\ listeners[1].active = 1
    /\ \E d \in delivered : d.event_id = events[1].id /\ d.listener = listeners[1].id

\* C19: every envelope delivered for an event is {event: name, payload: P}
\* with the name and the payload that were passed when the event was
\* enqueued: the row stores them as passed, and each delivery, the first as
\* well as one after a retry or by an overlapping run, carries what the row
\* of the event holds.
C19_EnvelopeVerbatim ==
    /\ [][\A uk \in UserKeys, bk \in BoardKeys, a \in RaceEventArgs :
            (ToolTestEvent(uk, bk, a[1], a[2]) /\ events' # events)
               => /\ events'[Len(events')].event = a[1]
                  /\ json_loads(events'[Len(events')].payload_json) = a[2]]_vars
    /\ [](\A d \in delivered :
            /\ DOMAIN d.envelope = {"event", "payload"}
            /\ d.envelope.event = EventRow(events, d.event_id).event
            /\ d.envelope.payload = json_loads(EventRow(events, d.event_id).payload_json))
    /\ [](\A k \in DOMAIN events :
            \E a \in RaceEventArgs :
               events[k].event = a[1] /\ events[k].payload_json = json_dumps(a[2]))

\* a card_moved event that was retried has been delivered by both runs
C19_Witness ==
    /\ Len(events) = 1 /\ events[1].event = "card_moved" /\ events[1].retry_count = 1
    /\ \E d1, d2 \in delivered :
         /\ d1.by = 1 /\ d2.by = 2
         /\ d1.event_id = events[1].id /\ d2.event_id = events[1].id
         /\ d1.envelope.payload = [id |-> "c1", to |-> "done"]

\* C8: no event is claimed before delivery: the snapshot read of a run
\* writes nothing, and the only statuses ever stored are queued, done and
\* failed, so two overlapping runs can hold and deliver the same event.
C8_NoLease ==
    /\ [](\A k \in DOMAIN events : events[k].status \in {"queued", "done", "failed"})
    /\ [][\A p \in Procs : (runs[p].pc = "idle" /\ runs'[p].pc = "resolve")
            => events' = events]_vars

\* two runs sampled the same event while it was queued, each delivered it to
\* the same listener, and each has committed it and returned
C8_Witness ==
    /\ runs[1].pc = "idle" /\ runs[1].processed = 1
    /\ runs[2].pc = "idle" /\ runs[2].processed = 1
    /\ Len(events) = 1 /\ events[1].retry_count = 0
    /\ \E d1, d2 \in delivered :
         /\ d1.by = 1 /\ d2.by = 2
         /\ d1.event_id = events[1].id /\ d2.event_id = events[1].id
         /\ d1.listener = d2.listener

-----------------------------------------------------------------------------
(* Properties of a run over its batch, under SpecBatch *)

\* what the outside world did amounts to a failed delivery
Failing(kind, out) ==
    \/ kind = "command" /\ (out.rc # 0 \/ out.exc # None)
    \/ kind = "http" /\ out.exc # None
    \/ kind \notin {"command", "http"}

\* C21: in an executing run every delivery failure (a non-zero exit, an
\* HTTP error or timeout, an exception raised during delivery, a listener
\* of unknown kind, for which nothing is attempted) is turned into a failed
\* result with a diagnostic of at most 500 characters, is recorded on the
\* event as status failed with that diagnostic as last_error, and is not
\* raised to the caller; the run goes on with the next event of its batch,
\* and a run that returns has committed every event of its batch as done or
\* failed.
C21_FailuresRecorded ==
    /\ [](\A p \in Procs : runs[p].pc = "deliver" =>
            LET ln == runs[p].lns[runs[p].j] IN
            \A out \in Outcomes(ln.kind) :
                LET res == deliver(ln.kind, ln.target, Envelope(Current(runs[p])), out) IN
                Failing(ln.kind, out) => (~res[1] /\ res[2].len <= InfoLimit))
    /\ [][\A p \in Procs : PQDeliver(p) =>
            LET ln == runs[p].lns[runs[p].j]
                t == runs'[p].tried[Len(runs'[p].tried)]
            IN  /\ last' = last
                /\ t.id = ln.id
                /\ ~Attempts(ln.kind)
                     => (~t.ok /\ t.info.what = "unknown kind" /\ delivered' = delivered)
                /\ ~t.ok => /\ runs'[p].pc = "commit"
                            /\ runs'[p].status = "failed"
                            /\ runs'[p].last_error = Some(t.info)]_vars
    /\ [][\A p \in Procs : PQCommit(p) =>
            LET run == runs[p]
                row == EventRow(events', Current(run).id)
            IN  /\ last' = last
                /\ row.status \in {"done", "failed"}
                /\ run.status = "failed"
                     => (row.status = "failed" /\ row.last_error = run.last_error
                         /\ row.last_error # None)
                /\ run.i < Len(run.batch)
                     => (runs'[p].pc = "resolve" /\ runs'[p].i = run.i + 1
                         /\ runs'[p].batch = run.batch)
                /\ runs'[p].pc = "idle"
                     => /\ run.i = Len(run.batch)
                        /\ \A x \in DOMAIN run.batch :
                             EventRow(events', run.batch[x].id).status
                                \in {"done", "failed"}]_vars

\* a run has returned after a batch of two events: the first failed on a
\* listener of unknown kind, and the second was processed after it
C21_Witness ==
    /\ runs[1].pc = "idle" /\ runs[1].processed = 2
    /\ Len(events) = 2
    /\ events[1].status = "failed" /\ events[1].last_error # None
    /\ events[1].last_error[1].what = "unknown kind"
    /\ events[2].status \in {"done", "failed"}

-----------------------------------------------------------------------------
(* Properties of identifiers, under SpecBoard *)

IdsOf(table) == {table[k].id : k \in DOMAIN table}

\* C22: no identifier is reused: the identifiers stored in boards, columns,
\* cards, listeners and events are pairwise distinct, within a table and
\* across the tables.
C22_NoIdReuse ==
    Len(boards) + Len(columns) + Len(cards) + Len(listeners) + Len(events)
      = Cardinality(IdsOf(boards) \cup IdsOf(columns) \cup IdsOf(cards)
                    \cup IdsOf(listeners) \cup IdsOf(events))

-----------------------------------------------------------------------------
(* Properties of update_card, under SpecEmit *)

CardKeys == {"id", "board_id", "title", "description", "assignee", "priority",
             "column_id", "external_type", "external_id", "blocked_by",
             "blocked_reason", "blocked_since"}

\* C23: update_card writes, on the card named, exactly those of title,
\* description, assignee and priority that fields names, and nothing else of
\* any card (not its column, not its blocked fields); other keys of fields
\* are ignored; when fields names none of the four the store is unchanged
\* and the answer is updated 0 without error; the answer is updated 1 only
\* when a card was there to modify.
C23_UpdateCardFrame ==
    [][last'.op = "update_card" =>
         \A uk \in UserKeys, bk \in BoardKeys, c \in CardIds, f \in FieldsArgs :
            ToolUpdateCard(uk, bk, c, f) =>
               LET named == DOMAIN f \cap AllowedKeys
                   res == update_card(cards, c, f).ret
               IN  /\ last'.err = "none"
                   /\ columns' = columns
                   /\ DOMAIN cards' = DOMAIN cards
                   /\ \A k \in DOMAIN cards : \A key \in CardKeys :
                        cards'[k][key] = IF cards[k].id = c /\ key \in named
                                         THEN f[key] ELSE cards[k][key]
                   /\ named = {} => /\ res.updated = 0
                                    /\ UNCHANGED <<boards, columns, cards, events>>
                   /\ res.updated = 1 => \E k \in DOMAIN cards : cards[k].id = c]_vars

-----------------------------------------------------------------------------
(* Properties of the column operations, under SpecColumns *)

ColumnsOf(cols, board_id) == Rows(cols, LAMBDA c : c.board_id = board_id)

\* the board holds the six default columns and no other
Seeded(cols, board_id) ==
    LET rs == ColumnsOf(cols, board_id) IN
    /\ Len(rs) = Len(DEFAULT_COLUMNS)
    /\ \A k \in DOMAIN rs : /\ rs[k].name = DEFAULT_COLUMNS[k][1]
                            /\ rs[k].position = k - 1
                            /\ rs[k].wip_limit = None

\* C24: seed_defaults_for_board on a board with no columns creates exactly
\* the six default columns, at positions 0..5 in their order and with no
\* WIP limit, and leaves the columns of other boards alone; on a board that
\* has a column it changes nothing, be it found by the count or be the board
\* seeded by an overlapping call since this call counted.
C24_SeedDefaults ==
    /\ [][\A p \in Procs : SeedInsert(p) =>
            LET b == runs[p].board_id IN
            IF ColumnsOf(columns, b) = <<>>
            THEN /\ Seeded(columns', b)
                 /\ \A k \in DOMAIN columns : columns'[k] = columns[k]
            ELSE Seeded(columns, b) => columns' = columns]_vars
    /\ [][\A p \in Procs, b \in BoardIds :
            (SeedCount(p, b) /\ ColumnsOf(columns, b) # <<>>)
               => (runs'[p].pc = "idle" /\ columns' = columns)]_vars

\* the place of a listener in the registry, which is in order of registration
Registered(lns, listener_id) == CHOOSE k \in DOMAIN lns : lns[k].id = listener_id

-----------------------------------------------------------------------------
(* Properties of the sampling of the queue, under SpecBus *)

\* the queued events of a board in the order they were enqueued
QueuedInOrder(evs, board_id) ==
    Rows(evs, LAMBDA e : e.board_id = board_id /\ e.status = "queued")

Min(a, b) == IF a < b THEN a ELSE b

-----------------------------------------------------------------------------
(* Properties of the counts and of the commits of a run, under SpecBatch *)

\* the events of a batch, among its first n, that are stored with a status
StoredAs(evs, batch, n, status) ==
    {x \in DOMAIN batch : x <= n /\ EventRow(evs, batch[x].id).status = status}

\* C27: process_queue returns processed equal to the number of events it
\* sampled and committed, at most max_events, and failed equal to the number
\* of them it committed as failed; so failed <= processed, and processed -
\* failed events were committed as done.  The counts are right at every
\* turn of the loop, not only at the return.
C27_Counts ==
    /\ [][\A p \in Procs, uk \in UserKeys, bk \in BoardKeys, n \in MaxEventsArgs :
            PQStart(p, uk, bk, TRUE, n)
               => /\ Len(runs'[p].batch) <= ToolMaxEvents(n)
                  /\ runs'[p].processed = 0 /\ runs'[p].failed = 0]_vars
    /\ [](\A p \in Procs : runs[p].pc # "idle" =>
            LET run == runs[p] IN
            /\ run.processed = run.i - 1
            /\ run.failed = Cardinality(StoredAs(events, run.batch, run.i - 1, "failed"))
                              + (IF run.pc = "commit" /\ run.status = "failed"
                                 THEN 1 ELSE 0))
    /\ [][\A p \in Procs : (PQCommit(p) /\ runs'[p].pc = "idle") =>
            LET batch == runs[p].batch
                ret == runs'[p]
            IN  /\ ret.processed = Len(batch)
                /\ ret.failed = Cardinality(StoredAs(events', batch, Len(batch), "failed"))
                /\ ret.failed <= ret.processed
                /\ ret.processed - ret.failed
                     = Cardinality(StoredAs(events', batch, Len(batch), "done"))]_vars

\* a run has returned processed 2 and failed 1: of its two events one is
\* stored as failed and one as done
C27_Witness ==
    /\ runs[1].pc = "idle" /\ runs[1].processed = 2 /\ runs[1].failed = 1
    /\ Len(events) = 2
    /\ \E k \in DOMAIN events : events[k].status = "failed"
    /\ \E k \in DOMAIN events : events[k].status = "done"

\* C28: within a run each event's status and last_error are committed
\* before anything is done for the next event of the batch: while the run
\* is at its i-th event, the events before it are stored as done or failed
\* and the i-th and later ones are still queued; deliveries write nothing to
\* the queue; a run that is aborted writes nothing more, so the events it
\* handled keep the status committed and the others stay queued.
C28_CommitPerEvent ==
    /\ [](\A p \in Procs : runs[p].pc # "idle" =>
            \A x \in DOMAIN runs[p].batch :
               LET row == EventRow(events, runs[p].batch[x].id) IN
               IF x < runs[p].i
               THEN /\ row.status \in {"done", "failed"}
                    /\ (row.status = "failed") <=> (row.last_error # None)
               ELSE row.status = "queued")
    /\ [][\A p \in Procs : (PQResolve(p) \/ PQDeliver(p)) => events' = events]_vars
    /\ [][\A p \in Procs : PQAbort(p) =>
            /\ events' = events
            /\ runs'[p].pc = "idle"
            /\ \A x \in DOMAIN runs[p].batch :
                 LET row == EventRow(events', runs[p].batch[x].id) IN
                 IF x < runs[p].i THEN row.status \in {"done", "failed"}
                 ELSE row.status = "queued"]_vars

\* a run over two events was aborted after it had committed the first as
\* failed: the second is still queued
C28_Witness ==
    /\ last = Response("process_queue", "aborted", None)
    /\ runs[1].pc = "idle" /\ Len(runs[1].batch) = 2 /\ runs[1].i = 2
    /\ EventRow(events, runs[1].batch[1].id).status = "failed"
    /\ EventRow(events, runs[1].batch[1].id).last_error # None
    /\ EventRow(events, runs[1].batch[2].id).status = "queued"

\* C29: under any interleaving of seed_defaults_for_board, add_column,
\* ensure_column, add_card and move_card, the columns of a board have
\* pairwise distinct names and pairwise distinct positions, a column that
\* is created gets a position greater than that of every column the board
\* had, and a column that exists never changes.
C29_ColumnPositions ==
    /\ [](\A j, k \in DOMAIN columns :
            (j # k /\ columns[j].board_id = columns[k].board_id)
               => /\ columns[j].name # columns[k].name
                  /\ columns[j].position # columns[k].position)
    /\ [][/\ Len(columns') >= Len(columns)
          /\ \A k \in DOMAIN columns : columns'[k] = columns[k]
          /\ \A k \in DOMAIN columns' \ DOMAIN columns : \A j \in DOMAIN columns :
               columns[j].board_id = columns'[k].board_id
                  => columns[j].position < columns'[k].position]_vars

\* the column is stored in the board under its name with the id and the
\* position given
StoredColumn(cols, board_id, col) ==
    \E k \in DOMAIN cols : /\ cols[k].board_id = board_id
                           /\ cols[k].name = col.name
                           /\ cols[k].id = col.id
                           /\ cols[k].position = col.position

\* C30: add_column and ensure_column are get-or-create by name: the column
\* either returns is the one stored in the board under that name, with the
\* id and the position returned, whether the name existed before the call,
\* was created by it, or was created by an overlapping call.
C30_GetOrCreate ==
    /\ [][\A p \in Procs :
            (ACInsert(p) /\ runs[p].op \in {"add_column", "ensure_column"})
               => StoredColumn(columns', runs[p].board_id,
                               [id |-> uid(clock'), name |-> runs[p].name,
                                position |-> runs[p].pos])]_vars
    /\ [][\A p \in Procs, b \in BoardIds, n \in RaceColumnNames :
            (CallEnsureColumn(p, "ensure_column", b, n, 0)
                /\ column_by_name(columns, b, n) # None)
               => /\ runs'[p].pc = "idle"
                  /\ column_by_name(columns, b, n)[1].name = n
                  /\ StoredColumn(columns', b, column_by_name(columns, b, n)[1])]_vars

-----------------------------------------------------------------------------
(* add_card and move_card on two boards: move_card takes the board of the
   caller's keys and the card id as given, and its UPDATE selects the card
   by id alone *)

MoveBoardKeys == {"default", "other"}

NextMoves ==
    \/ /\ Len(cards) < MaxCards
       /\ \E uk \in UserKeys, bk \in MoveBoardKeys, ti \in Titles, n \in ColumnNames,
             x \in Externals :
            ToolAddCard(uk, bk, ti, n, x)
    \/ \E uk \in UserKeys, bk \in MoveBoardKeys, c \in CardIds, n \in ColumnNames,
          b \in EmitBlockedArgs :
         ToolMoveCard(uk, bk, c, n, b[1], b[2])

SpecMoves == Init /\ [][NextMoves]_vars

-----------------------------------------------------------------------------
(* C31 *)

\* the rows of columns that the card's column_id joins to on the card's own
\* board
OwnColumns(cols, card) ==
    {k \in DOMAIN cols : cols[k].id = card.column_id /\ cols[k].board_id = card.board_id}

\* C31: in every reachable state each card is in exactly one column, a
\* column that exists and belongs to the card's own board, after any
\* sequence of add_card and move_card calls, whatever board move_card is
\* called for.
C31_CardInOwnColumn ==
    \A k \in DOMAIN cards : Cardinality(OwnColumns(columns, cards[k])) = 1

-----------------------------------------------------------------------------
(* C32 *)

\* C32: in every reachable state an event that is done has no last_error
\* and an event that is failed has one; a run that commits an event as
\* failed stores the reason of the listener whose delivery failed in that
\* run; and only a commit of a processor run changes the last_error of an
\* event, so retry leaves it as it is and a re-queued event keeps the error
\* of its last failed attempt.
C32_ErrorFollowsStatus ==
    /\ [](\A k \in DOMAIN events :
            /\ events[k].status = "done" => events[k].last_error = None
            /\ events[k].status = "failed" => events[k].last_error # None)
    /\ [][\A p \in Procs : (runs[p].pc = "commit" /\ PQCommit(p)) =>
            \A k \in DOMAIN events :
               (events[k].id = runs[p].batch[runs[p].i].id
                   /\ events'[k].status = "failed")
                  => LET tried == runs[p].tried IN
                     /\ tried # <<>>
                     /\ ~tried[Len(tried)].ok
                     /\ tried[Len(tried)].id = runs[p].lns[runs[p].j].id
                     /\ events'[k].last_error = Some(tried[Len(tried)].info)]_vars
    /\ [][(\E k \in DOMAIN events : events'[k].last_error # events[k].last_error)
            => \E p \in Procs : runs[p].pc = "commit" /\ PQCommit(p)]_vars
    /\ [][\A e \in EventIds : (last'.op = "retry_event" /\ ToolRetryEvent(e)) =>
            /\ DOMAIN events' = DOMAIN events
            /\ \A k \in DOMAIN events : events'[k].last_error = events[k].last_error]_vars

\* an event that failed has been retried: it is queued again and still
\* carries the error of the failed attempt
C32_Witness ==
    /\ last.op = "retry_event"
    /\ \E k \in DOMAIN events :
         /\ events[k].status = "queued"
         /\ events[k].retry_count > 0
         /\ events[k].last_error # None

-----------------------------------------------------------------------------
(* One processor that is invoked again and again, dry or executing, with a
   limit of one event or the default, on a queue of up to two events that
   may be retried *)

MaxDrainListeners == 1
MaxDrainEvents == 2

DrainStart ==
    \E uk \in UserKeys, bk \in BoardKeys, x \in BOOLEAN, n \in MaxEventsArgs :
        PQStart(1, uk, bk, x, n)

NextDrain ==
    \/ /\ Len(listeners) < MaxDrainListeners
       /\ \E uk \in UserKeys, bk \in BoardKeys, a \in BatchListenerArgs :
            ToolRegisterListener(uk, bk, a[1], a[2], a[3])
    \/ Len(events) < MaxDrainEvents /\ TestEvent
    \/ Retry
    \/ DrainStart
    \/ PQResolve(1)
    \/ PQDeliver(1)
    \/ PQCommit(1)

\* process_queue keeps being invoked, and each step of a run is taken once
\* it can be: the listeners are read, the delivery returns, the UPDATE
\* commits
DrainFairness ==
    /\ WF_vars(DrainStart)
    /\ WF_vars(PQResolve(1))
    /\ WF_vars(PQDeliver(1))
    /\ WF_vars(PQCommit(1))

SpecDrain == InitBus /\ [][NextDrain]_vars /\ DrainFairness

-----------------------------------------------------------------------------
(* C33 *)

\* C33: every process_queue run returns once each of its deliveries
\* returns, and if from some point on no event is enqueued or retried while
\* process_queue keeps being invoked with max_events of one or more, then
\* eventually, and from then on, no event of the board is queued: each is
\* done or failed, also those that come after an event that failed.
C33_QueueDrains ==
    /\ (runs[1].pc # "idle") ~> (runs[1].pc = "idle")
    /\ <>[][~(TestEvent \/ Retry)]_vars
          => <>[](\A k \in DOMAIN events : events[k].status \in {"done", "failed"})

\* the older of two events failed and the newer one was processed after it
C33_Witness ==
    /\ Len(events) = 2
    /\ events[1].status = "failed"
    /\ events[2].status = "done"
    /\ runs[1].pc = "idle"

-----------------------------------------------------------------------------
(* Two boards, each with its own listeners and events, and one processor
   that is run for either board, dry or executing *)

MaxConfinedListeners == 2
MaxConfinedEvents == 2

NextConfined ==
    \/ /\ Len(listeners) < MaxConfinedListeners
       /\ \E uk \in UserKeys, bk \in RegBoardKeys, a \in ListenerArgs :
            ToolRegisterListener(uk, bk, a[1], a[2], a[3])
    \/ /\ Len(events) < MaxConfinedEvents
       /\ \E uk \in UserKeys, bk \in RegBoardKeys, e \in RegEventNames, pl \in Payloads :
            ToolTestEvent(uk, bk, e, pl)
    \/ \E uk \in UserKeys, bk \in RegBoardKeys, x \in BOOLEAN, n \in MaxEventsArgs :
         PQStart(1, uk, bk, x, n)
    \/ PQResolve(1)
    \/ PQDeliver(1)
    \/ PQCommit(1)

SpecConfined == InitBus /\ [][NextConfined]_vars

-----------------------------------------------------------------------------
(* C34 *)

\* C34: a process_queue run for a board changes only events of that board
\* (the events of every other board keep their status, retry_count and
\* last_error), and it delivers only to listeners registered on that
\* board: every delivery it attempts is of an event of the board to a
\* listener of the board, so listeners of other boards, wildcard ones
\* included, receive nothing from it.
C34_ConfinedToBoard ==
    /\ [][(runs[1].pc = "idle" /\ runs'[1].pc # "idle") =>
            \A x \in DOMAIN runs'[1].batch :
               EventRow(events, runs'[1].batch[x].id).board_id = runs'[1].board_id]_vars
    /\ [][(\E k \in DOMAIN events : events'[k] # events[k])
            => (runs[1].pc = "commit" /\ PQCommit(1))]_vars
    /\ [][PQCommit(1) =>
            /\ DOMAIN events' = DOMAIN events
            /\ \A k \in DOMAIN events :
                 events[k].board_id # runs[1].board_id => events'[k] = events[k]]_vars
    /\ [][(runs[1].pc = "deliver" /\ PQDeliver(1)) =>
            LET ln == runs[1].lns[runs[1].j] IN
            /\ \E k \in DOMAIN listeners : listeners[k].id = ln.id
            /\ listeners[Registered(listeners, ln.id)].board_id = runs[1].board_id
            /\ EventRow(events, Current(runs[1]).id).board_id = runs[1].board_id]_vars
    /\ [](\A d \in delivered :
            listeners[Registered(listeners, d.listener)].board_id
               = EventRow(events, d.event_id).board_id)

\* a run has delivered an event of one board to that board's listener and
\* committed it, while another board has an active wildcard listener and an
\* event that is still queued
C34_Witness ==
    /\ runs[1].pc = "idle"
    /\ delivered # {}
    /\ \E k \in DOMAIN events :
         /\ events[k].board_id = runs[1].board_id
         /\ events[k].status = "done"
    /\ \E k \in DOMAIN events :
         /\ events[k].board_id # runs[1].board_id
         /\ events[k].status = "queued"
    /\ \E k \in DOMAIN listeners :
         /\ listeners[k].board_id # runs[1].board_id
         /\ listeners[k].active = 1
         /\ listeners[k].event = "*"

====
